---- MODULE Spec2Model ----
(***************************************************************************)
(* Product-transfer engine of the socket client/server pair.               *)
(*                                                                         *)
(* The client half is poll_and_send (client_send.c) with the poller        *)
(* get_next_file and the disposition routines (client_queue.c); the server *)
(* half is the worker's service loop (serv_recv.c).  One step of the model *)
(* is one phase of the send loop, one ack-loop iteration, or one product   *)
(* received by the worker.                                                 *)
(*                                                                         *)
(* Abstractions.  Wall-clock comparisons (TTL, ack deadline) are inputs    *)
(* drawn by the action that makes them.  A product body is a number of     *)
(* blocks (0, 1 or 2).  File contents are identified by the identity of    *)
(* the file.  The seqno modulus is scaled down so that wrap-around is      *)
(* reachable.                                                              *)
(***************************************************************************)
EXTENDS Integers, Sequences, FiniteSets, TLC

----------------------------------------------------------------------------
(* Bounds of the model                                                     *)

\* number of files that exist in the input directory
NumFiles == 3
\* number of environment faults (refused connects, send errors, R/F acks,
\* ack timeouts, killed workers) injected in one behaviour
MaxFaults == 3
\* ClientOpt.window_size (client.h:55), scaled down from the default 100
WindowSize == 2
\* ClientOpt.sent_count (client.h:65), scaled down from the default 1000
SentCount == 2
\* MAX_PROD_SEQNO (share.h:70) scaled down from 99999
MaxProdSeqno == 3
\* cap on prod_info_t.send_count, which is unbounded when max_retry = -1
MaxSendCount == 4
\* ClientOpt.queue_ttl in seconds when the TTL is on (client.h:60)
TtlSecs == 1
\* seconds the clock advances in one behaviour
MaxTicks == 2
\* MAX_PROD_SIZE in bytes (share.h:67), scaled down from 99999977
MaxProdSize == 3
\* width of size_t in bits, scaled down from 64
SizeBits == 5
\* ServOpt.bufsize in bytes (server.h:48), scaled down from 32768
BufSize == 2
\* FIRST_BLK_SIZE in bytes (serv_recv.c:46), scaled down from 1024
FirstBlkSize == 1
\* headers a client sends on one connection
MaxProducts == 3
\* number of input directories (ClientOpt.indir_list)
NumDirs == 2
\* number of files in one input directory
MaxDirLen == 2
\* the mtimes of the files in the input directories are 1 .. MaxMtime
MaxMtime == 3
\* ClientOpt.max_queue_len when the cap is on (client.h:64)
MaxQueueLen == 2
\* ServOpt.max_worker (server.h:46), scaled down from the default 99
MaxWorker == 2
\* number of workers the dispatcher forks in one behaviour
MaxForks == 4
\* files that arrive in the input directories after the client started
MaxArrivals == 2

\* passes of open_out_file's retry loop that are followed
MaxOpenRetry == 5
\* the clock of the sleep computation runs from 0 to MaxNow seconds
MaxNow == 4
\* cap on connect_failures and input_failures, which the code never bounds
MaxFailures == 5
\* width of int and unsigned int in bits, scaled down from 32
IntBits == 8
\* CCB_MIN_HDR_LEN and CCB_MAX_HDR_LEN in bytes (share.h:82-83), scaled
\* down from 24 and 1024
CcbMinHdrLen == 2
CcbMaxHdrLen == 4
\* ClientOpt.bufsize and what of it the first block leaves to the data,
\* scaled down from 32768 and 32768 - 32
CcbBufSize == 4
CcbFirstRead == 3
\* the product files of the CCB check have up to MaxCcbFile bytes
MaxCcbFile == 6
\* transmissions of one product that are followed
MaxSends == 3

----------------------------------------------------------------------------
(* Constants of the program                                                *)

NULL == -1

STATE_NUL == "nul"
STATE_FREE == "free"
STATE_QUEUED == "Q"
STATE_SENT == "S"
STATE_ACKED == "A"
STATE_NACKED == "N"
STATE_RETRY == "R"
STATE_FAILED == "F"
STATE_DEAD == "X"

ACK_OK == "K"
ACK_FAIL == "F"
ACK_RETRY == "R"
\* any byte that is none of the three codes
ACK_BAD == "?"

SHUTDOWN_FLAG == "SHUTDOWN"
DISCONNECT_FLAG == "DISCONNECT"
NOPEER_FLAG == "NOPEER"

MAX_PROD_SEQNO == MaxProdSeqno
MAX_PROD_SIZE == MaxProdSize
PROD_HDR_LEN == 22
MSG_HDR_LEN == 10
ACK_MSG_LEN == 6

\* server.h: the sleeps between two tries to open the output file
SHORT_RETRY_SLEEP == 3
LONG_RETRY_SLEEP == 30

\* client_send.c: the sleep after more than three failures in a row
RECOVERY_SLEEP == 20

\* share.h: where a CCB heading has its flag and its length, and the flag
CCB_FLAG_BYTE == 0
CCB_LENGTH_BYTE == 1
CCB_FLAG_VAL == 64
FIRST_BLK_SIZE == FirstBlkSize

\* contents: 0 is "no file", 1..NumFiles the input files, ConnContent a
\* connection message
FileIds == 1 .. NumFiles
ConnContent == NumFiles + 1
NoFile == 0

\* the second oldest input file is zero-length, the others have two blocks;
\* a connection message fits one block
ZeroLenFile == 2
FileSize(f) == IF f = ZeroLenFile THEN 0 ELSE IF f = ConnContent THEN 1 ELSE 2
\* st_mtime of the input files: file 1 is the oldest
MTime(f) == f
\* the clock when the client starts: the newest input file was just written
StartTime == MTime(NumFiles)

NoPath == <<"", 0>>
InPath(f) == <<"in", f>>
SentPath(k) == <<"sent", k>>
FailPath(k) == <<"fail", k>>
TmpPath(s) == <<"tmp", s>>

\* the widest product table any specification below allocates
WideWindow == WindowSize + 1

Slots == 0 .. (WideWindow - 1)

Paths == ({"in"} \X FileIds) \cup ({"sent", "fail"} \X (0 .. SentCount - 1))
            \cup ({"tmp"} \X Slots)

----------------------------------------------------------------------------
VARIABLES
    opt,          \* ClientOpt: the options this run was started with
    Flags,        \* set of flag bits
    pc,           \* position of poll_and_send
    sock_fd,      \* -1 or the descriptor of the open socket
    prod_tbl,     \* prod[], free_list, ack_list, retr_list
    p_prod,       \* current product (slot index) or NULL
    p_connect,    \* slot of the connection message or NULL
    i,            \* poll_and_send's local i
    ack_ready,    \* poll_and_send's local ack_ready
    ProdSeqno,    \* static seqno counter of client_send.c
    queue,        \* get_next_file's static snapshot
    qidx,         \* get_next_file's static qidx
    fs,           \* the filesystem: path -> content
    sent_idx,     \* finish_send's static file_count
    fail_idx,     \* abort_send's static file_count
    c2s,          \* bytes in flight client -> server, one element per product
    s2c,          \* acks in flight server -> client
    srv,          \* state of the worker serving this connection
    srv_seqno,    \* service()'s local seqno: the expected seqno
    faults,       \* number of environment faults injected so far
    wrote,        \* history: seqnos of the headers written on this connection
    accepted,     \* history: seqnos of the headers the worker accepted
    xmit,         \* history: per file, number of times its header was written
    racked,       \* history: per slot, the R ack received for it on this
                  \* connection and not yet followed by a send of the slot
    ev,           \* history: what the last step did
    now,          \* the system clock, in seconds: what time(NULL) returns
    wk,           \* a server worker: service()'s locals, its output directory
                  \* and the acks it has sent
    pq,           \* the poller on its own: the input directories,
                  \* get_next_file's statics and what it has returned
    dsp           \* the server's dispatcher: WorkerPids, WorkerCount, the
                  \* processes it has forked and the listening socket

vars == <<opt, Flags, pc, sock_fd, prod_tbl, p_prod, p_connect, i, ack_ready,
          ProdSeqno, queue, qidx, fs, sent_idx, fail_idx, c2s, s2c, srv,
          srv_seqno, faults, wrote, accepted, xmit, racked, ev, now, wk, pq,
          dsp>>

\* the variables no step of the send loop or of its peer assigns
outside == <<now, wk, pq, dsp>>

----------------------------------------------------------------------------
(* Product table: intrusive singly-linked lists (client.h, client_send.c)  *)

ZeroProd == [seqno |-> 0, filename |-> NoPath, size |-> 0, state |-> STATE_NUL,
             send_count |-> 0, queue_time |-> 0, p_next |-> NULL]

EmptyList == [count |-> 0, p_head |-> NULL, p_tail |-> NULL]

\* push_prod without the count++ of client_send.c:1049
push_prod_NoCount(t, l, p) ==
    LET lst == t[l]
        pr1 == IF lst.p_tail # NULL
                 THEN [t.prod EXCEPT ![lst.p_tail].p_next = p]
                 ELSE t.prod
        pr2 == [pr1 EXCEPT ![p].p_next = NULL]
    IN  [t EXCEPT !.prod = pr2,
                  ![l] = [count  |-> lst.count,
                          p_head |-> IF lst.p_tail # NULL THEN lst.p_head ELSE p,
                          p_tail |-> p]]

\* push_prod: append p at the tail of list l
push_prod(t, l, p) ==
    LET lst == t[l]
        pr1 == IF lst.p_tail # NULL
                 THEN [t.prod EXCEPT ![lst.p_tail].p_next = p]
                 ELSE t.prod
        pr2 == [pr1 EXCEPT ![p].p_next = NULL]
    IN  [t EXCEPT !.prod = pr2,
                  ![l] = [count  |-> lst.count + 1,
                          p_head |-> IF lst.p_tail # NULL THEN lst.p_head ELSE p,
                          p_tail |-> p]]

\* pop_prod without the count-- of client_send.c:1079
pop_prod_KeepCount(t, l) ==
    LET lst == t[l]
        h   == lst.p_head
    IN  IF h = NULL THEN t
        ELSE LET nh == t.prod[h].p_next
             IN  [t EXCEPT !.prod = [@ EXCEPT ![h].p_next = NULL],
                           ![l] = [count  |-> lst.count,
                                   p_head |-> nh,
                                   p_tail |-> IF nh = NULL THEN NULL
                                                           ELSE lst.p_tail]]

\* pop_prod: the popped slot is t[l].p_head (NULL when the list is empty)
pop_prod(t, l) ==
    LET lst == t[l]
        h   == lst.p_head
    IN  IF h = NULL THEN t
        ELSE LET nh == t.prod[h].p_next
             IN  [t EXCEPT !.prod = [@ EXCEPT ![h].p_next = NULL],
                           ![l] = [count  |-> lst.count - 1,
                                   p_head |-> nh,
                                   p_tail |-> IF nh = NULL THEN NULL
                                                           ELSE lst.p_tail]]

RECURSIVE rebuild_from(_, _)
rebuild_from(t, k) ==
    IF k \notin DOMAIN t.prod THEN t
    ELSE LET st == t.prod[k].state
             l  == IF st \in {STATE_QUEUED, STATE_RETRY} THEN "retr_list"
                   ELSE IF st = STATE_SENT THEN "ack_list"
                   ELSE "free_list"
         IN  rebuild_from(push_prod(t, l, k), k + 1)

\* a rebuild_lists that leaves the lists as they are
rebuild_lists_Keep(t) == t

\* rebuild_lists: reset the three lists and re-derive them from the states
rebuild_lists(t) ==
    rebuild_from([prod      |-> [s \in DOMAIN t.prod |-> [t.prod[s] EXCEPT !.p_next = NULL]],
                  free_list |-> EmptyList,
                  ack_list  |-> EmptyList,
                  retr_list |-> EmptyList], 0)

\* the slots reachable from the head of list l, in order (cut after
\* one link more than there are slots, which only a cycle can reach)
RECURSIVE ChainFrom(_, _, _)
ChainFrom(t, p, n) ==
    IF p = NULL \/ n = 0 THEN <<>>
    ELSE <<p>> \o ChainFrom(t, t.prod[p].p_next, n - 1)

Chain(t, l) == ChainFrom(t, t[l].p_head, WideWindow + 1)

SeqToSet(s) == {s[k] : k \in DOMAIN s}


----------------------------------------------------------------------------
(* Filesystem and disposition (share.c, client_queue.c)                    *)

\* my_rename: fails when the source does not exist, else moves the file,
\* replacing whatever the target held
my_rename(f, source, target) ==
    IF source \notin Paths \/ f[source] = NoFile
      THEN [rc |-> -1, fs |-> f]
      ELSE [rc |-> 0, fs |-> [f EXCEPT ![target] = f[source], ![source] = NoFile]]

\* finish_send: move the product to sent_dir/<file_count>, update the
\* product's path on success, advance the circular index
finish_send(pr, f, cnt) ==
    LET r == my_rename(f, pr.filename, SentPath(cnt))
    IN  [prod |-> IF r.rc < 0 THEN pr ELSE [pr EXCEPT !.filename = SentPath(cnt)],
         fs   |-> r.fs,
         file_count |-> (cnt + 1) % SentCount]

\* abort_send: the same towards fail_dir, with its own circular index
abort_send(pr, f, cnt) ==
    LET r == my_rename(f, pr.filename, FailPath(cnt))
    IN  [prod |-> IF r.rc < 0 THEN pr ELSE [pr EXCEPT !.filename = FailPath(cnt)],
         fs   |-> r.fs,
         file_count |-> (cnt + 1) % SentCount]

----------------------------------------------------------------------------
(* Poller (client_queue.c)                                                 *)

\* check_window: is filename the path of a product on the ack or retr list
\* check_window: is the file the product of a slot on the awaiting-ack or
\* on the retry list (client_queue.c:717-732)
check_window(t, filename) ==
    \/ \E k \in SeqToSet(Chain(t, "ack_list")) : t.prod[k].filename = filename
    \/ \E k \in SeqToSet(Chain(t, "retr_list")) : t.prod[k].filename = filename

\* compare_items on one input directory: older st_mtime first
RECURSIVE SortByMTime(_)
SortByMTime(S) ==
    IF S = {} THEN <<>>
    ELSE LET m == CHOOSE x \in S : \A y \in S : MTime(x) <= MTime(y)
         IN  <<m>> \o SortByMTime(S \ {m})

QueueItem(f) == [filename |-> InPath(f), queue_time |-> MTime(f),
                 size |-> FileSize(f)]

\* the snapshot one poll builds: every file of the input directory that is
\* not in the window, sorted
PollDirs(t, f) ==
    LET S == {x \in FileIds : f[InPath(x)] # NoFile /\ ~check_window(t, InPath(x))}
        o == SortByMTime(S)
    IN  [k \in DOMAIN o |-> QueueItem(o[k])]

\* get_next_file: [rc, queue, qidx, item]; rc is the queue length
\* including the returned item, 0 when nothing is returned
get_next_file(t, f, q, qi, due) ==
    LET refresh == (Len(q) - qi = 0) \/ due
        q1  == IF refresh THEN PollDirs(t, f) ELSE q
        qi1 == IF refresh THEN 0 ELSE qi
        qcnt == Len(q1)
    IN  IF qcnt - qi1 > 0
           /\ (~opt.wait_last_file
                 \/ q1[qi1 + 1].queue_time < q1[qcnt].queue_time)
          THEN [rc |-> qcnt - (qi1 + 1) + 1, queue |-> q1, qidx |-> qi1 + 1,
                item |-> q1[qi1 + 1]]
          ELSE [rc |-> 0, queue |-> q1, qidx |-> qi1, item |-> QueueItem(1)]

----------------------------------------------------------------------------
(* Send loop (client_send.c)                                               *)

NEXT_SEQNO(x) == (x + 1) % (MAX_PROD_SEQNO + 1)

Ev(op, slot, code, path, seqno) ==
    [op |-> op, slot |-> slot, code |-> code, path |-> path, seqno |-> seqno]

NoEv == Ev("none", NULL, "", NoPath, 0)

\* create_conn_msg: take a free slot, zero it, write the temporary file and
\* stamp the product with the time tm of the call
create_conn_msg(t, f, tm) ==
    LET h == t.free_list.p_head
    IN  IF h = NULL
          THEN [tbl |-> rebuild_lists(t), p |-> NULL, fs |-> f]
          ELSE LET t1 == pop_prod(t, "free_list")
               IN  [tbl |-> [t1 EXCEPT !.prod[h] =
                                [ZeroProd EXCEPT !.filename = TmpPath(h),
                                                 !.queue_time = tm,
                                                 !.size = FileSize(ConnContent)]],
                    p   |-> h,
                    fs  |-> [f EXCEPT ![TmpPath(h)] = ConnContent]]

\* disconnect_from_server: clears NOPEER (or shuts the socket down) and
\* DISCONNECT
disconnect_from_server(fl) == fl \ {NOPEER_FLAG, DISCONNECT_FLAG}

NoRack == [seqno |-> NULL, path |-> NoPath]

NetDown ==
    /\ c2s' = <<>>
    /\ s2c' = <<>>
    /\ srv' = "idle"
    /\ srv_seqno' = 0
    /\ wrote' = <<>>
    /\ accepted' = <<>>
    /\ racked' = [s \in DOMAIN racked |-> NoRack]

NetSame == UNCHANGED <<c2s, s2c, srv, srv_seqno, wrote, accepted, racked>>

\* Top of the while loop: the shutdown test, then the disconnect check
\* (client_send.c:162-177, 441-445)
LoopTop ==
    /\ UNCHANGED outside
    /\ pc = "top"
    /\ ev' = NoEv
    /\ UNCHANGED <<opt, i, ack_ready, ProdSeqno, queue, qidx, sent_idx, fail_idx,
                   faults, xmit>>
    /\ IF SHUTDOWN_FLAG \in Flags
         THEN /\ pc' = "exit"
              /\ sock_fd' = -1
              /\ Flags' = IF sock_fd >= 0 THEN disconnect_from_server(Flags)
                                          ELSE Flags
              /\ IF sock_fd >= 0 THEN NetDown ELSE NetSame
              /\ UNCHANGED <<prod_tbl, p_prod, p_connect, fs>>
         ELSE IF sock_fd >= 0 /\ DISCONNECT_FLAG \in Flags
           THEN /\ pc' = "connect"
                /\ sock_fd' = -1
                /\ Flags' = disconnect_from_server(Flags)
                /\ NetDown
                /\ IF opt.connect_wmo
                     THEN LET t1 == IF p_prod # NULL /\ p_prod # p_connect
                                      THEN push_prod(prod_tbl, "retr_list", p_prod)
                                      ELSE prod_tbl
                              cm == create_conn_msg(t1, fs, now)
                          IN  /\ prod_tbl' = cm.tbl
                              /\ fs' = cm.fs
                              /\ p_prod' = cm.p
                              /\ p_connect' = cm.p
                     ELSE UNCHANGED <<prod_tbl, p_prod, p_connect, fs>>
           ELSE /\ pc' = "connect"
                /\ NetSame
                /\ UNCHANGED <<sock_fd, Flags, prod_tbl, p_prod, p_connect, fs>>

\* the re-queue loop left out
requeue_None(t, k, ub, pp, pconn) == [tbl |-> t, i |-> k, ub |-> ub]

\* the re-queue loop after a successful connect (client_send.c:198-223):
\* [tbl, i, ub]; ub records that p_prod was dereferenced while NULL.  Every
\* iteration takes a slot off the ack list, so the loop body runs at most
\* once per slot; the recursion is cut there.
RECURSIVE requeue(_, _, _, _, _)
requeue(t, k, ub, pp, pconn) ==
    IF t.ack_list.count <= 0 \/ k > WideWindow THEN [tbl |-> t, i |-> k, ub |-> ub]
    ELSE LET p_retr == t.ack_list.p_head
         IN  IF p_retr = NULL
               THEN requeue(rebuild_lists(t), k + 1, ub, pp, pconn)
               ELSE LET t1 == pop_prod(t, "ack_list")
                    IN  IF p_retr = pconn
                          THEN requeue(t1, k + 1, ub, pp, pconn)
                          ELSE LET t2 == IF k > 0 /\ pp # NULL
                                              /\ t1.prod[pp].send_count > 0
                                           THEN [t1 EXCEPT !.prod[pp].send_count = @ - 1]
                                           ELSE t1
                               IN  requeue(push_prod(t2, "retr_list", p_retr),
                                           k + 1, ub \/ (k > 0 /\ pp = NULL),
                                           pp, pconn)

\* connect_to_server and the re-queue of the products awaiting an ack
\* (client_send.c:180-226, 476-538)
Connect ==
    /\ UNCHANGED outside
    /\ pc = "connect"
    /\ UNCHANGED <<opt, p_prod, p_connect, ack_ready, queue, qidx, fs, sent_idx,
                   fail_idx, xmit>>
    /\ IF sock_fd >= 0
         THEN /\ pc' = "acquire"
              /\ ev' = NoEv
              /\ NetSame
              /\ UNCHANGED <<sock_fd, Flags, prod_tbl, i, ProdSeqno, faults>>
         ELSE \E res \in {"ok"} \cup (IF faults < MaxFaults
                                        THEN {"refused", "timeout"} ELSE {}) :
                IF res = "ok"
                  THEN LET r == requeue(prod_tbl, 0, FALSE, p_prod, p_connect)
                       IN  \E segv \in (IF r.ub THEN BOOLEAN ELSE {FALSE}) :
                             IF segv
                               THEN /\ pc' = "crashed"
                                    /\ ev' = NoEv
                                    /\ NetSame
                                    /\ UNCHANGED <<sock_fd, Flags, prod_tbl, i,
                                                   ProdSeqno, faults>>
                               ELSE /\ pc' = "acquire"
                                    /\ ev' = Ev("connected", NULL, "", NoPath, 0)
                                    /\ sock_fd' = 1
                                    /\ ProdSeqno' = 0
                                    /\ prod_tbl' = r.tbl
                                    /\ i' = r.i
                                    /\ c2s' = <<>>
                                    /\ s2c' = <<>>
                                    /\ srv' = "serving"
                                    /\ srv_seqno' = 0
                                    /\ wrote' = <<>>
                                    /\ accepted' = <<>>
                                    /\ racked' = [s \in DOMAIN racked |-> NoRack]
                                    /\ UNCHANGED <<Flags, faults>>
                  ELSE /\ pc' = "acquire"
                       /\ ev' = NoEv
                       /\ faults' = faults + 1
                       /\ Flags' = IF res = "timeout"
                                     THEN Flags \cup {DISCONNECT_FLAG} ELSE Flags
                       /\ NetSame
                       /\ UNCHANGED <<sock_fd, prod_tbl, i, ProdSeqno>>


\* Acquire the next product: a retransmission first, else poll
\* (client_send.c:228-278)
Acquire ==
    /\ UNCHANGED outside
    /\ pc = "acquire"
    /\ ev' = NoEv
    /\ NetSame
    /\ UNCHANGED <<opt, Flags, sock_fd, p_connect, i, ack_ready, ProdSeqno, fs,
                   sent_idx, fail_idx, faults, xmit>>
    /\ IF p_prod # NULL
         THEN /\ pc' = "ttl"
              /\ UNCHANGED <<prod_tbl, p_prod, queue, qidx>>
         ELSE IF prod_tbl.ack_list.count < opt.window_size
           THEN IF prod_tbl.retr_list.count > 0
                  THEN LET h == prod_tbl.retr_list.p_head
                       IN  /\ pc' = "ttl"
                           /\ p_prod' = h
                           /\ prod_tbl' = IF h = NULL THEN rebuild_lists(prod_tbl)
                                          ELSE pop_prod(prod_tbl, "retr_list")
                           /\ UNCHANGED <<queue, qidx>>
                  ELSE LET h == prod_tbl.free_list.p_head
                       IN  IF h = NULL
                             THEN /\ pc' = "top"
                                  /\ prod_tbl' = rebuild_lists(prod_tbl)
                                  /\ UNCHANGED <<p_prod, queue, qidx>>
                             ELSE \E due \in (IF opt.refresh_interval > 0
                                                THEN BOOLEAN ELSE {FALSE}) :
                                   LET t1 == pop_prod(prod_tbl, "free_list")
                                       g  == get_next_file(t1, fs, queue, qidx, due)
                                   IN  /\ pc' = "ttl"
                                       /\ queue' = g.queue
                                       /\ qidx' = g.qidx
                                       /\ IF g.rc > 0
                                            THEN /\ p_prod' = h
                                                 /\ prod_tbl' =
                                                      [t1 EXCEPT !.prod[h] =
                                                        [ZeroProd EXCEPT
                                                          !.filename = g.item.filename,
                                                          !.queue_time = g.item.queue_time,
                                                          !.size = g.item.size,
                                                          !.state = STATE_QUEUED]]
                                            ELSE /\ p_prod' = NULL
                                                 /\ prod_tbl' = push_prod(t1, "free_list", h)
           ELSE /\ pc' = "ttl"
                /\ prod_tbl' = IF prod_tbl.ack_list.count = opt.window_size
                                 THEN prod_tbl ELSE rebuild_lists(prod_tbl)
                /\ UNCHANGED <<p_prod, queue, qidx>>

\* the age test of the TTL check (client_send.c:282-283)
expired(pr, ttl, tm) == ttl > 0 /\ tm > pr.queue_time + ttl

\* TTL check of the current product (client_send.c:280-296)
TtlCheck ==
    /\ UNCHANGED outside
    /\ pc = "ttl"
    /\ pc' = "send"
    /\ NetSame
    /\ UNCHANGED <<opt, Flags, sock_fd, p_connect, i, ack_ready, ProdSeqno, queue,
                   qidx, sent_idx, faults, xmit>>
    /\ IF p_prod # NULL /\ expired(prod_tbl.prod[p_prod], opt.queue_ttl, now)
           THEN LET a == abort_send([prod_tbl.prod[p_prod] EXCEPT !.state = STATE_DEAD],
                                    fs, fail_idx)
                IN  /\ prod_tbl' = push_prod([prod_tbl EXCEPT !.prod[p_prod] = a.prod],
                                             "free_list", p_prod)
                    /\ fs' = a.fs
                    /\ fail_idx' = a.file_count
                    /\ p_prod' = NULL
                    /\ ev' = Ev("ttl", p_prod, "", prod_tbl.prod[p_prod].filename, 0)
           ELSE /\ ev' = NoEv
                /\ UNCHANGED <<prod_tbl, fs, fail_idx, p_prod>>

\* what one call of send_prod can meet, by the number of blocks of the
\* product: a failed read or a failed or short send, at the first or at
\* the second block
SendOutcomes(size) ==
    IF size <= 0 THEN {"ok"}
    ELSE IF size = 1 THEN {"ok", "read1", "err1", "short1"}
    ELSE {"ok", "read1", "err1", "short1", "read2", "err2", "short2"}

\* a product sent again after an R ack keeps the seqno it already carries
AssignSeqno_KeepOnRetry(pr, seqno) ==
    IF pr.state = STATE_RETRY THEN pr ELSE [pr EXCEPT !.seqno = seqno]

\* p_prod->seqno = ProdSeqno (client_send.c:688)
AssignSeqno(pr, seqno) == [pr EXCEPT !.seqno = seqno]

\* send_prod (client_send.c:650-845) on product pr with outcome o:
\* [rc, prod, seqno, flags, wire]; wire is "none", "partial" or "whole"
send_prod(pr, f, seqno, fl, o) ==
    IF opt.max_retry > 0 /\ pr.send_count > opt.max_retry
      THEN [rc |-> -1, prod |-> [pr EXCEPT !.state = STATE_FAILED],
            seqno |-> seqno, flags |-> fl, wire |-> "none"]
    ELSE LET p1 == [pr EXCEPT !.send_count = @ + 1]
         IN  IF p1.filename \notin Paths \/ f[p1.filename] = NoFile
               THEN [rc |-> -1, prod |-> [p1 EXCEPT !.state = STATE_FAILED],
                     seqno |-> seqno, flags |-> fl, wire |-> "none"]
             ELSE LET p2 == AssignSeqno(p1, seqno)
                  IN  CASE o = "ok" ->
                             [rc |-> 0, prod |-> [p2 EXCEPT !.state = STATE_SENT],
                              seqno |-> NEXT_SEQNO(seqno), flags |-> fl,
                              wire |-> IF p2.size > 0 THEN "whole" ELSE "none"]
                        [] o = "read1" ->
                             [rc |-> -1, prod |-> [p2 EXCEPT !.state = STATE_FAILED],
                              seqno |-> seqno, flags |-> fl, wire |-> "none"]
                        [] o = "err1" ->
                             [rc |-> -1, prod |-> [p2 EXCEPT !.state = STATE_RETRY],
                              seqno |-> seqno,
                              flags |-> fl \cup {DISCONNECT_FLAG, NOPEER_FLAG},
                              wire |-> "none"]
                        [] o = "read2" ->
                             [rc |-> -1, prod |-> [p2 EXCEPT !.state = STATE_FAILED],
                              seqno |-> NEXT_SEQNO(seqno),
                              flags |-> fl \cup {DISCONNECT_FLAG},
                              wire |-> "partial"]
                        [] o = "err2" ->
                             [rc |-> -1, prod |-> [p2 EXCEPT !.state = STATE_RETRY],
                              seqno |-> seqno,
                              flags |-> fl \cup {DISCONNECT_FLAG, NOPEER_FLAG},
                              wire |-> "partial"]
                        [] OTHER ->
                             [rc |-> -1, prod |-> [p2 EXCEPT !.state = STATE_RETRY],
                              seqno |-> NEXT_SEQNO(seqno),
                              flags |-> fl \cup {DISCONNECT_FLAG},
                              wire |-> "partial"]

Msg(seqno, content, whole) == [seqno |-> seqno, content |-> content, whole |-> whole]

\* send_prod returns before it reads or sends anything: retries exhausted,
\* or the file cannot be opened
SendEarly(pr, f) ==
    \/ (opt.max_retry > 0 /\ pr.send_count > opt.max_retry)
    \/ pr.filename \notin Paths
    \/ f[pr.filename] = NoFile

\* slot s is about to be sent again because of an R ack received on the
\* connection that is still open
AfterRetryAck(s) ==
    /\ s # NULL
    /\ racked[s].seqno # NULL
    /\ prod_tbl.prod[s].state = STATE_RETRY

\* Send the current product if connected (client_send.c:298-331)
Send ==
    /\ UNCHANGED outside
    /\ pc = "send"
    /\ pc' = "acks"
    /\ UNCHANGED <<opt, sock_fd, p_connect, i, queue, qidx, sent_idx, s2c, srv,
                   srv_seqno, accepted>>
    /\ racked' = IF p_prod # NULL /\ sock_fd >= 0
                   THEN [racked EXCEPT ![p_prod] = NoRack] ELSE racked
    /\ IF p_prod # NULL /\ sock_fd >= 0
         THEN LET pr == prod_tbl.prod[p_prod]
                  early == SendEarly(pr, fs)
              IN  /\ pr.send_count < MaxSendCount
                  /\ \E o \in (IF early THEN {"ok"} ELSE SendOutcomes(pr.size)) :
                       LET r  == send_prod(pr, fs, ProdSeqno, Flags, o)
                           t1 == [prod_tbl EXCEPT !.prod[p_prod] = r.prod]
                           content == IF pr.filename \in Paths THEN fs[pr.filename]
                                                              ELSE NoFile
                           \* a send error on a socket whose peer is gone is no
                           \* fault of its own
                           fault == o # "ok" /\ ~(o = "err1" /\ srv \in {"seqerr", "dead"})
                       IN  /\ (fault => faults < MaxFaults)
                           /\ faults' = IF fault THEN faults + 1 ELSE faults
                           /\ ProdSeqno' = r.seqno
                           /\ Flags' = r.flags
                           /\ c2s' = IF r.wire = "none" THEN c2s
                                     ELSE Append(c2s, Msg(r.prod.seqno, content,
                                                          r.wire = "whole"))
                           /\ wrote' = IF r.wire = "none" THEN wrote
                                       ELSE Append(wrote, r.prod.seqno)
                           /\ xmit' = IF r.wire # "none" /\ content \in FileIds
                                        THEN [xmit EXCEPT ![content] = @ + 1]
                                        ELSE xmit
                           /\ IF r.rc = 0
                                THEN /\ prod_tbl' = push_prod(t1, "ack_list", p_prod)
                                     /\ p_prod' = NULL
                                     /\ ev' = Ev("sent", p_prod,
                                                 IF AfterRetryAck(p_prod)
                                                   THEN ACK_RETRY ELSE "",
                                                 pr.filename, r.prod.seqno)
                                     /\ UNCHANGED <<fs, fail_idx>>
                                ELSE IF r.prod.state = STATE_FAILED
                                  THEN LET a == abort_send(r.prod, fs, fail_idx)
                                       IN  /\ prod_tbl' =
                                                push_prod([t1 EXCEPT !.prod[p_prod] = a.prod],
                                                          "free_list", p_prod)
                                           /\ fs' = a.fs
                                           /\ fail_idx' = a.file_count
                                           /\ p_prod' = NULL
                                           /\ ev' = Ev("sendfail", p_prod, "",
                                                       pr.filename, r.prod.seqno)
                                  ELSE /\ prod_tbl' = t1
                                       /\ ev' = Ev("sendretry", p_prod, "",
                                                   pr.filename, r.prod.seqno)
                                       /\ UNCHANGED <<fs, fail_idx, p_prod>>
                  /\ ack_ready' = prod_tbl'.ack_list.count
         ELSE /\ ack_ready' = prod_tbl.ack_list.count
              /\ ev' = NoEv
              /\ UNCHANGED <<Flags, prod_tbl, p_prod, ProdSeqno, fs, fail_idx, c2s,
                             faults, wrote, xmit>>

Ack(seqno, code) == [seqno |-> seqno, code |-> code]

\* the six bytes as the client reads them: intact, or with the code byte or
\* the seqno digits damaged by whatever sits at the other end
Garble(a, how) ==
    CASE how = "code"  -> Ack(a.seqno, ACK_BAD)
      [] how = "seqno" -> Ack(NEXT_SEQNO(a.seqno), a.code)
      [] OTHER         -> a

\* the socket is readable: an ack has arrived, or the peer closed it
Readable == s2c # <<>> \/ srv \in {"seqerr", "dead"}

\* no ack can arrive any more for the products awaiting one
NoAckToCome == s2c = <<>> /\ (c2s = <<>> \/ srv # "serving")

\* the ack switch (client_send.c:369-410) applied to the popped product
\* p_ack of table t (already popped): [tbl, fs, sent_idx, fail_idx]
ack_switch(t, p_ack, code, f, si, fi, idx, pconn) ==
    LET clobber(tt) == IF idx \in DOMAIN tt.prod
                         THEN [tt EXCEPT !.prod[idx].state = STATE_FREE] ELSE tt
    IN  CASE code = ACK_OK ->
               LET d == finish_send([t.prod[p_ack] EXCEPT !.state = STATE_ACKED], f, si)
               IN  [tbl |-> push_prod(clobber([t EXCEPT !.prod[p_ack] = d.prod]),
                                      "free_list", p_ack),
                    fs |-> d.fs, sent_idx |-> d.file_count, fail_idx |-> fi]
          [] code = ACK_FAIL ->
               LET d == abort_send([t.prod[p_ack] EXCEPT !.state = STATE_NACKED], f, fi)
               IN  [tbl |-> push_prod(clobber([t EXCEPT !.prod[p_ack] = d.prod]),
                                      "free_list", p_ack),
                    fs |-> d.fs, sent_idx |-> si, fail_idx |-> d.file_count]
          [] code = ACK_RETRY ->
               IF p_ack = pconn
                 THEN [tbl |-> push_prod(clobber(t), "free_list", p_ack),
                       fs |-> f, sent_idx |-> si, fail_idx |-> fi]
                 ELSE [tbl |-> push_prod([t EXCEPT !.prod[p_ack].state = STATE_RETRY],
                                         "retr_list", p_ack),
                       fs |-> f, sent_idx |-> si, fail_idx |-> fi]
          [] OTHER ->
               [tbl |-> push_prod(t, "ack_list", p_ack),
                fs |-> f, sent_idx |-> si, fail_idx |-> fi]

\* the ack switch stores through prod_tbl.prod[idx] outside the table
OobWrite(t, code, p_ack, idx, pconn) ==
    /\ idx \notin DOMAIN t.prod
    /\ code \in {ACK_OK, ACK_FAIL} \/ (code = ACK_RETRY /\ p_ack = pconn)

\* recv_ack without the comparison with the expected seqno
recv_ack_rc_AnySeqno(rx, expect_seqno) ==
    IF rx.code \notin {ACK_OK, ACK_RETRY, ACK_FAIL} THEN -1 ELSE 0

\* recv_ack's checks on the six bytes read (client_send.c:996-1019):
\* 0 when the ack is for p_ack's seqno and carries a known code
recv_ack_rc(rx, expect_seqno) ==
    IF rx.seqno # expect_seqno THEN -1
    ELSE IF rx.code \notin {ACK_OK, ACK_RETRY, ACK_FAIL} THEN -1
    ELSE 0

\* One iteration of the ack loop (client_send.c:334-425)
AckStep ==
    /\ UNCHANGED outside
    /\ pc = "acks"
    /\ sock_fd >= 0 /\ prod_tbl.ack_list.p_head # NULL /\ ack_ready > 0
    /\ UNCHANGED <<opt, sock_fd, p_prod, i, ProdSeqno, queue, qidx, c2s, srv,
                   srv_seqno, wrote, accepted, xmit>>
    /\ IF ~Readable
         THEN \* check_for_ack returns 0: test the head's deadline
              \E timed_out \in (IF prod_tbl.ack_list.count = opt.window_size
                                  THEN {TRUE} ELSE BOOLEAN) :
                /\ (timed_out /\ ~NoAckToCome) => faults < MaxFaults
                /\ faults' = IF timed_out /\ ~NoAckToCome THEN faults + 1 ELSE faults
                /\ ack_ready' = 0
                /\ pc' = pc
                /\ Flags' = IF timed_out THEN Flags \cup {DISCONNECT_FLAG} ELSE Flags
                /\ ev' = IF timed_out
                           THEN Ev("acktimeout", prod_tbl.ack_list.p_head, "", NoPath, 0)
                           ELSE NoEv
                /\ UNCHANGED <<prod_tbl, p_connect, fs, sent_idx, fail_idx, s2c>>
         ELSE LET p_ack == prod_tbl.ack_list.p_head
                  t1    == pop_prod(prod_tbl, "ack_list")
                  pr    == prod_tbl.prod[p_ack]
              IN  IF s2c = <<>>
                    THEN \* recv returns 0 bytes: the peer is gone
                         /\ ack_ready' = -1
                         /\ pc' = pc
                         /\ Flags' = Flags \cup {DISCONNECT_FLAG, NOPEER_FLAG}
                         /\ prod_tbl' = push_prod(t1, "ack_list", p_ack)
                         /\ ev' = Ev("ackeof", p_ack, "", pr.filename, pr.seqno)
                         /\ UNCHANGED <<p_connect, fs, sent_idx, fail_idx, s2c, faults>>
                    ELSE \E garbled \in (IF faults < MaxFaults
                                           THEN {"no", "code", "seqno"} ELSE {"no"}) :
                           LET rx == Garble(Head(s2c), garbled)
                           IN  /\ s2c' = Tail(s2c)
                               /\ faults' = IF garbled # "no" THEN faults + 1 ELSE faults
                               /\ IF recv_ack_rc(rx, pr.seqno) < 0
                                    THEN /\ ack_ready' = -1
                                         /\ pc' = pc
                                         /\ Flags' = Flags \cup {DISCONNECT_FLAG}
                                         /\ prod_tbl' = push_prod(t1, "ack_list", p_ack)
                                         /\ ev' = Ev("ackrej", p_ack, rx.code,
                                                     pr.filename, rx.seqno)
                                         /\ UNCHANGED <<p_connect, fs, sent_idx, fail_idx>>
                                    ELSE LET r == ack_switch(t1, p_ack, rx.code, fs,
                                                             sent_idx, fail_idx, i,
                                                             p_connect)
                                         IN  /\ ack_ready' = 1
                                             \* prod_tbl.prod[i] with i past the
                                             \* table is a write outside the
                                             \* allocation: it may go unnoticed or
                                             \* kill the process
                                             /\ \E wild \in
                                                  (IF OobWrite(prod_tbl, rx.code, p_ack,
                                                               i, p_connect)
                                                     THEN BOOLEAN ELSE {FALSE}) :
                                                  pc' = IF wild THEN "crashed" ELSE pc
                                             /\ prod_tbl' = r.tbl
                                             /\ fs' = r.fs
                                             /\ sent_idx' = r.sent_idx
                                             /\ fail_idx' = r.fail_idx
                                             /\ p_connect' = IF p_ack = p_connect
                                                               THEN NULL ELSE p_connect
                                             /\ ev' = Ev("ack", p_ack, rx.code,
                                                         pr.filename, rx.seqno)
                                             /\ UNCHANGED Flags
    /\ racked' = IF ev'.op = "ack" /\ ev'.code = ACK_RETRY /\ ev'.slot # p_connect
                   THEN [racked EXCEPT ![ev'.slot] =
                           [seqno |-> ev'.seqno, path |-> ev'.path]]
                   ELSE racked

\* The ack loop ends; the sleep that may follow (client_send.c:427-438)
\* changes nothing.  ack_ready is dead until line 331 assigns it again.
AckExit ==
    /\ UNCHANGED outside
    /\ pc = "acks"
    /\ ~(sock_fd >= 0 /\ prod_tbl.ack_list.p_head # NULL /\ ack_ready > 0)
    /\ pc' = "top"
    /\ ack_ready' = 0
    /\ ev' = NoEv
    /\ NetSame
    /\ UNCHANGED <<opt, Flags, sock_fd, prod_tbl, p_prod, p_connect, i, ProdSeqno,
                   queue, qidx, fs, sent_idx, fail_idx, faults, xmit>>

\* stop_sighandler (client_main.c:799-811), first signal.  The flag is read
\* only by the loop test (client_send.c:162), so a signal delivered anywhere
\* in an iteration is seen exactly as one delivered just before that test.
StopSignal ==
    /\ UNCHANGED outside
    /\ pc = "top"
    /\ SHUTDOWN_FLAG \notin Flags
    /\ Flags' = Flags \cup {SHUTDOWN_FLAG}
    /\ ev' = NoEv
    /\ NetSame
    /\ UNCHANGED <<opt, pc, sock_fd, prod_tbl, p_prod, p_connect, i, ack_ready,
                   ProdSeqno, queue, qidx, fs, sent_idx, fail_idx, faults, xmit>>

----------------------------------------------------------------------------
(* Worker (serv_recv.c)                                                    *)

\* recv_msghdr's seqno check (serv_recv.c:183-191)
seqno_ok(got, expected) == got = expected \/ got = 0

\* service: one product header and body (serv_recv.c:99-115)
SrvRecv ==
    /\ UNCHANGED outside
    /\ srv = "serving"
    /\ c2s # <<>>
    /\ c2s' = Tail(c2s)
    /\ ev' = NoEv
    /\ UNCHANGED <<opt, Flags, pc, sock_fd, prod_tbl, p_prod, p_connect, i,
                   ack_ready, ProdSeqno, queue, qidx, fs, sent_idx, fail_idx,
                   wrote, xmit, racked>>
    /\ LET m == Head(c2s)
       IN  IF ~seqno_ok(m.seqno, srv_seqno)
             THEN /\ srv' = "seqerr"
                  /\ UNCHANGED <<s2c, srv_seqno, accepted, faults>>
             ELSE /\ accepted' = Append(accepted, m.seqno)
                  /\ IF ~m.whole
                       THEN /\ srv' = "stalled"
                            /\ UNCHANGED <<s2c, srv_seqno, faults>>
                       ELSE \E code \in {ACK_OK} \cup
                                 (IF faults < MaxFaults THEN {ACK_RETRY, ACK_FAIL}
                                                         ELSE {}) :
                              /\ s2c' = Append(s2c, Ack(m.seqno, code))
                              /\ srv_seqno' = m.seqno + 1
                              /\ faults' = IF code = ACK_OK THEN faults ELSE faults + 1
                              /\ srv' = srv

\* the worker exits (killed, or its socket timeout fires)
SrvDie ==
    /\ UNCHANGED outside
    /\ srv = "serving"
    /\ faults < MaxFaults
    /\ faults' = faults + 1
    /\ srv' = "dead"
    /\ ev' = NoEv
    /\ UNCHANGED <<opt, Flags, pc, sock_fd, prod_tbl, p_prod, p_connect, i,
                   ack_ready, ProdSeqno, queue, qidx, fs, sent_idx, fail_idx,
                   c2s, s2c, srv_seqno, wrote, accepted, xmit, racked>>

----------------------------------------------------------------------------
(* Initial state: poll_and_send before its loop (client_send.c:131-159)    *)

RECURSIVE init_free(_, _)
init_free(t, k) ==
    IF k \notin DOMAIN t.prod THEN t
    ELSE init_free(push_prod([t EXCEPT !.prod[k].state = STATE_FREE],
                             "free_list", k), k + 1)

InitTbl(w) == init_free([prod      |-> [s \in 0 .. (w - 1) |-> ZeroProd],
                      free_list |-> EmptyList,
                      ack_list  |-> EmptyList,
                      retr_list |-> EmptyList], 0)

InitFs == [p \in Paths |-> IF p[1] = "in" THEN p[2] ELSE NoFile]

Opts == [window_size : {WindowSize}, connect_wmo : BOOLEAN, max_retry : {1},
         queue_ttl : {0}, wait_last_file : {FALSE}, refresh_interval : {0}]

\* a process that is not modelled in detail
WkOff == [pc |-> "off"]

\* the parts of the system a specification of the send loop leaves out
Parked == wk = WkOff /\ pq = WkOff /\ dsp = WkOff

InitWith(o, nfaults) ==
    /\ opt = o
    /\ Flags = {}
    /\ pc = "top"
    /\ sock_fd = -1
    /\ LET cm == IF o.connect_wmo THEN create_conn_msg(InitTbl(o.window_size), InitFs, StartTime)
                 ELSE [tbl |-> InitTbl(o.window_size), p |-> NULL, fs |-> InitFs]
       IN  /\ prod_tbl = cm.tbl
           /\ p_prod = cm.p
           /\ p_connect = cm.p
           /\ fs = cm.fs
    /\ i = o.window_size
    /\ ack_ready = 0
    /\ ProdSeqno = 0
    /\ queue = <<>>
    /\ qidx = 0
    /\ sent_idx = 0
    /\ fail_idx = 0
    /\ c2s = <<>>
    /\ s2c = <<>>
    /\ srv = "idle"
    /\ srv_seqno = 0
    /\ faults = nfaults
    /\ wrote = <<>>
    /\ accepted = <<>>
    /\ xmit = [f \in FileIds |-> 0]
    /\ racked = [s \in 0 .. (o.window_size - 1) |-> NoRack]
    /\ ev = NoEv
    /\ now = StartTime

Init == (\E o \in Opts : InitWith(o, 0)) /\ Parked

Next ==
    \/ LoopTop
    \/ Connect
    \/ Acquire
    \/ TtlCheck
    \/ Send
    \/ AckStep
    \/ AckExit
    \/ StopSignal
    \/ SrvRecv
    \/ SrvDie

Spec == Init /\ [][Next]_vars

----------------------------------------------------------------------------
(* Sequence numbers within one connection                                  *)

\* seqnos start at 0 and each is its predecessor plus 1 modulo MAX_PROD_SEQNO+1
Consecutive(sq) ==
    /\ (Len(sq) > 0 => sq[1] = 0)
    /\ \A k \in 1 .. (Len(sq) - 1) : sq[k + 1] = NEXT_SEQNO(sq[k])

IsPrefix(a, b) == Len(a) <= Len(b) /\ \A k \in 1 .. Len(a) : a[k] = b[k]

\* C1: within one connection the seqnos written to the socket are consecutive
\* modulo MAX_PROD_SEQNO+1 starting at 0, and the seqnos the worker has
\* accepted so far are the same sequence (a prefix of it, the worker lagging).
C1_SeqnosConsecutive ==
    /\ Consecutive(wrote)
    /\ IsPrefix(accepted, wrote)

----------------------------------------------------------------------------
(* The three lists of the product table                                    *)

ListNames == {"free_list", "ack_list", "retr_list"}

OnLists(t) == Chain(t, "free_list") \o Chain(t, "ack_list") \o Chain(t, "retr_list")

CountsAreLengths(t) == \A l \in ListNames : t[l].count = Len(Chain(t, l))

CountSum(t) == t.free_list.count + t.ack_list.count + t.retr_list.count

\* C2 as stated: every slot is on exactly one list, each count is the list's
\* length, and the three counts add up to window_size, in every state of
\* the send loop.
C2_EverySlotOnOneList ==
    /\ CountsAreLengths(prod_tbl)
    /\ \A s \in DOMAIN prod_tbl.prod :
         Cardinality({k \in DOMAIN OnLists(prod_tbl) : OnLists(prod_tbl)[k] = s}) = 1
    /\ CountSum(prod_tbl) = opt.window_size

\* C2 amended: every slot is on at most one list, each count is the list's
\* length, the product the loop currently holds is on none of them, and the
\* three counts add up to at most window_size.
C2_AtMostOneList ==
    /\ CountsAreLengths(prod_tbl)
    /\ \A s \in DOMAIN prod_tbl.prod :
         Cardinality({k \in DOMAIN OnLists(prod_tbl) : OnLists(prod_tbl)[k] = s}) <= 1
    /\ (p_prod # NULL => p_prod \notin SeqToSet(OnLists(prod_tbl)))
    /\ CountSum(prod_tbl) <= opt.window_size

\* a product is held while another awaits its ack: one slot is on no list
C2_Witness ==
    /\ p_prod # NULL
    /\ prod_tbl.ack_list.count = 1
    /\ CountSum(prod_tbl) = opt.window_size - 1
    /\ pc = "send"

----------------------------------------------------------------------------
(* The window                                                              *)

\* C3: the awaiting-ack list never holds more than window_size products, and
\* a step taken while its count equals window_size neither polls the input
\* queue (the snapshot and its cursor stay as they are) nor removes a product
\* from the retry list.
C3_WindowBound ==
    /\ [](/\ prod_tbl.ack_list.count <= opt.window_size
          /\ Len(Chain(prod_tbl, "ack_list")) <= opt.window_size)
    /\ [][prod_tbl.ack_list.count = opt.window_size
            => /\ queue' = queue
               /\ qidx' = qidx
               /\ SeqToSet(Chain(prod_tbl, "retr_list"))
                    \subseteq SeqToSet(Chain(prod_tbl', "retr_list"))]_vars

\* the window is full, the loop has passed the point where it would take
\* its next product and holds none, though the snapshot has a file left
C3_Witness ==
    /\ pc = "ttl"
    /\ prod_tbl.ack_list.count = opt.window_size
    /\ p_prod = NULL
    /\ qidx < Len(queue)

----------------------------------------------------------------------------
(* Delivery when nothing goes wrong                                        *)

\* The send loop is one sequential process, the worker another.
ClientStep ==
    \/ LoopTop
    \/ Connect
    \/ Acquire
    \/ TtlCheck
    \/ Send
    \/ AckStep
    \/ AckExit

NextLive ==
    \/ ClientStep
    \/ SrvRecv

\* No environment fault is left to happen: every connect succeeds, every
\* send and read goes through, the worker answers K and stays up, and no
\* signal arrives.
InitLive == (\E o \in Opts : InitWith(o, MaxFaults)) /\ Parked

SpecLive ==
    /\ InitLive
    /\ [][NextLive]_vars
    /\ WF_vars(ClientStep)
    /\ WF_vars(SrvRecv)

NonEmptyFiles == {f \in FileIds : FileSize(f) > 0}

InSentDir(f) == \E k \in 0 .. (SentCount - 1) : fs[SentPath(k)] = f

\* C4: with the server reachable and answering K, wait_last_file off and the
\* loop scheduled fairly, every readable non-empty input file is eventually
\* transmitted and moved to the sent directory.
C4_EveryFileDelivered == \A f \in NonEmptyFiles : <>(xmit[f] > 0 /\ InSentDir(f))

----------------------------------------------------------------------------
(* Disposition on an ack                                                   *)

\* what a product's file holds, from the path it was queued under
ContentAt(path) == IF path[1] = "in" THEN path[2] ELSE ConnContent

OnFreeList(s) == s \in SeqToSet(Chain(prod_tbl, "free_list"))

\* the last step accepted an ack with this code for the head of the ack list
Accepted(code) == ev.op = "ack" /\ ev.code = code

\* C5: right after a K ack has been accepted for the head of the
\* awaiting-ack list, the product's file is gone from the path it was
\* queued under, is in the sent directory, and its slot is on the free list.
C5_AckOkMovesToSent ==
    Accepted(ACK_OK) =>
        /\ fs[ev.path] = NoFile
        /\ InSentDir(ContentAt(ev.path))
        /\ OnFreeList(ev.slot)

----------------------------------------------------------------------------
(* Which product an ack is applied to                                      *)

\* the step has read an ack off the socket
AckRead == ev'.op \in {"ack", "ackrej"}

ListOf(t, s) == {l \in ListNames : s \in SeqToSet(Chain(t, l))}

\* C6: an ack read off the socket is applied to the head of the
\* awaiting-ack list and to no other product (every other slot stays on its
\* list with its path, every other file stays where it is); if the ack's
\* seqno is not the head's or its code is not K, F or R, no file is moved,
\* no slot joins the free or the retry list, and the disconnect flag is set.
C6_AckAppliesToHead ==
    [][AckRead =>
         LET head == prod_tbl.ack_list.p_head
             hp   == prod_tbl.prod[head]
         IN  /\ ev'.slot = head
             /\ \A s \in DOMAIN prod_tbl.prod \ {head} :
                  /\ ListOf(prod_tbl', s) = ListOf(prod_tbl, s)
                  /\ prod_tbl'.prod[s].filename = prod_tbl.prod[s].filename
             /\ \A q \in Paths :
                  (q[1] \in {"in", "tmp"} /\ q # hp.filename) => fs'[q] = fs[q]
             /\ (ev'.seqno # hp.seqno \/ ev'.code \notin {ACK_OK, ACK_FAIL, ACK_RETRY})
                  => /\ fs' = fs
                     /\ Chain(prod_tbl', "free_list") = Chain(prod_tbl, "free_list")
                     /\ Chain(prod_tbl', "retr_list") = Chain(prod_tbl, "retr_list")
                     /\ head \in SeqToSet(Chain(prod_tbl', "ack_list"))
                     /\ DISCONNECT_FLAG \in Flags']_vars

\* an ack with a known code but another seqno than the head's was just
\* refused while a second product was awaiting its ack
C6_Witness ==
    /\ ev.op = "ackrej"
    /\ ev.code \in {ACK_OK, ACK_FAIL, ACK_RETRY}
    /\ prod_tbl.ack_list.count = 2
    /\ DISCONNECT_FLAG \in Flags

----------------------------------------------------------------------------
(* Reconnect                                                               *)

\* C7: a step that opens a connection resets the sequence counter to 0,
\* leaves the awaiting-ack list empty, and puts on the retry list every
\* product that was awaiting an ack, the connection message excepted;
\* nothing has been written to the new connection at that point.
C7_ConnectRequeues ==
    [][(sock_fd < 0 /\ sock_fd' >= 0) =>
         /\ ProdSeqno' = 0
         /\ prod_tbl'.ack_list = EmptyList
         /\ Chain(prod_tbl', "ack_list") = <<>>
         /\ \A s \in SeqToSet(Chain(prod_tbl, "ack_list")) \ {p_connect} :
              s \in SeqToSet(Chain(prod_tbl', "retr_list"))
         /\ wrote' = <<>>
         /\ c2s' = <<>>]_vars

\* a connection was just opened and what had been awaiting its ack is now
\* on the retry list
C7_Witness ==
    /\ ev.op = "connected"
    /\ ProdSeqno = 0
    /\ prod_tbl.ack_list.count = 0
    /\ prod_tbl.retr_list.count >= 1
    /\ \A s \in SeqToSet(Chain(prod_tbl, "retr_list")) :
         prod_tbl.prod[s].state = STATE_SENT

----------------------------------------------------------------------------
(* Retransmission after an R ack                                           *)

Last(sq) == sq[Len(sq)]

\* the step writes the header of a slot that got an R ack on this connection
ResendStep ==
    /\ pc = "send"
    /\ AfterRetryAck(p_prod)
    /\ Len(wrote') = Len(wrote) + 1

\* C8 as stated: after an R ack, and without a reconnect in between, the
\* product is re-sent with the same content under the seqno the R ack carried.
C8_ResendSameSeqno ==
    [][ResendStep =>
         /\ Last(c2s').content = ContentAt(racked[p_prod].path)
         /\ Last(wrote') = racked[p_prod].seqno]_vars

\* C8 amended: after an R ack, and without a reconnect in between, the
\* product is re-sent with the same content under the current value of the
\* client's sequence counter, which is not the seqno the R ack carried.
C8_ResendNextSeqno ==
    [][ResendStep =>
         /\ Last(c2s').content = ContentAt(racked[p_prod].path)
         /\ Last(wrote') = ProdSeqno
         /\ Last(wrote') # racked[p_prod].seqno]_vars

\* a product was just re-sent whole because of an R ack and the worker is
\* still serving the connection the ack came on
C8_Witness ==
    /\ ev.op = "sent"
    /\ ev.code = ACK_RETRY
    /\ ev.path[1] = "in"
    /\ Last(wrote) = ev.seqno
    /\ srv = "serving"

----------------------------------------------------------------------------
(* F acks                                                                  *)

InFailDir(f) == \E k \in 0 .. (SentCount - 1) : fs[FailPath(k)] = f

\* C9: right after an F ack has been accepted the product's file is gone
\* from its path and is in the fail directory, and its slot is on the free
\* list and not on the retry list; the step leaves the sequence counter
\* alone, so the next product goes out under the next seqno; and the
\* product is not retransmitted: a file that has left its input path never
\* returns to it and is never written to the socket again.
C9_AckFailMovesToFail ==
    /\ [](Accepted(ACK_FAIL) =>
            /\ fs[ev.path] = NoFile
            /\ InFailDir(ContentAt(ev.path))
            /\ OnFreeList(ev.slot)
            /\ ev.slot \notin SeqToSet(Chain(prod_tbl, "retr_list")))
    /\ [][/\ (ev'.op = "ack" /\ ev'.code = ACK_FAIL)
              => (ProdSeqno' = ProdSeqno /\ Flags' = Flags)
          /\ (Len(wrote') = Len(wrote) + 1) => Last(wrote') = ProdSeqno
          /\ \A f \in FileIds :
               fs[InPath(f)] = NoFile
                 => (fs'[InPath(f)] = NoFile /\ xmit'[f] = xmit[f])]_vars

----------------------------------------------------------------------------
(* The retry cap                                                           *)

\* A run with a window one slot wider, in which two products can await
\* their acks while a third is the current product.
OptsWide == [window_size : {WideWindow}, connect_wmo : {FALSE}, max_retry : {1},
             queue_ttl : {0}, wait_last_file : {FALSE}, refresh_interval : {0}]

InitWide == (\E o \in OptsWide : InitWith(o, 0)) /\ Parked

NextWide ==
    \/ ClientStep
    \/ SrvRecv

SpecWide == InitWide /\ [][NextWide]_vars

\* C10: with max_retry > 0 no file's header is written to the socket more
\* than max_retry + 1 times.
C10_RetryCap ==
    opt.max_retry > 0 => \A f \in FileIds : xmit[f] <= opt.max_retry + 1

----------------------------------------------------------------------------
(* Discarding by age                                                       *)

\* every variable but the clock
sendvars == <<opt, Flags, pc, sock_fd, prod_tbl, p_prod, p_connect, i,
              ack_ready, ProdSeqno, queue, qidx, fs, sent_idx, fail_idx, c2s,
              s2c, srv, srv_seqno, faults, wrote, accepted, xmit, racked, ev>>

\* a second passes.  With the TTL on, the send loop reads the clock where it
\* makes a connection message at the top of the loop (client_send.c:175,
\* 1318) and in the TTL check of a current product (client_send.c:283); a
\* second that passes anywhere else is seen at the next of these two places,
\* so the clock is advanced just before them.  With the TTL off the loop
\* never compares the clock.
Tick ==
    /\ opt.queue_ttl > 0
    /\ \/ pc = "ttl" /\ p_prod # NULL
       \/ /\ pc = "top"
          /\ opt.connect_wmo
          /\ sock_fd >= 0
          /\ Flags = {DISCONNECT_FLAG} \/ Flags = {DISCONNECT_FLAG, NOPEER_FLAG}
    /\ now < StartTime + MaxTicks
    /\ now' = now + 1
    /\ UNCHANGED <<sendvars, wk, pq, dsp>>

\* the TTL is on; queue_ttl = 0 is the case of Opts
OptsTtl == [window_size : {WindowSize}, connect_wmo : BOOLEAN, max_retry : {1},
            queue_ttl : {TtlSecs}, wait_last_file : {FALSE},
            refresh_interval : {0}]

InitTtl == (\E o \in OptsTtl : InitWith(o, 0)) /\ Parked

NextTtl ==
    \/ ClientStep
    \/ SrvRecv
    \/ Tick

SpecTtl == InitTtl /\ [][NextTtl]_vars

\* C11: when queue_ttl > 0 and the current product is older than queue_ttl
\* (now > queue_time + queue_ttl), the TTL check marks it dead, moves its
\* file to the fail directory and frees its slot, and nothing of it is
\* written to the socket; a current product that is not older, and every
\* current product when queue_ttl = 0, is left as it is.
C11_TtlDiscard ==
    [][(pc = "ttl" /\ pc' = "send" /\ p_prod # NULL) =>
         LET pr == prod_tbl.prod[p_prod]
         IN  IF opt.queue_ttl > 0 /\ now > pr.queue_time + opt.queue_ttl
               THEN /\ prod_tbl'.prod[p_prod].state = STATE_DEAD
                    /\ fs'[pr.filename] = NoFile
                    /\ \E k \in 0 .. (SentCount - 1) :
                          /\ fs'[FailPath(k)] = fs[pr.filename]
                          /\ fs'[FailPath(k)] # NoFile
                    /\ p_prod \in SeqToSet(Chain(prod_tbl', "free_list"))
                    /\ p_prod' = NULL
                    /\ c2s' = c2s /\ wrote' = wrote /\ xmit' = xmit
               ELSE /\ p_prod' = p_prod
                    /\ prod_tbl' = prod_tbl
                    /\ fs' = fs]_vars

----------------------------------------------------------------------------
(* The worker: service, recv_msghdr and recv_prod (serv_recv.c)            *)

\* the 32 header bytes a client can send: ok says that 32 bytes arrived and
\* that sscanf matched its four fields; msg_size is the %8d field, seqno the
\* %5d field
Headers ==
    {h \in [ok : BOOLEAN,
            msg_size : {-1} \cup ((PROD_HDR_LEN - 1) .. (PROD_HDR_LEN + MAX_PROD_SIZE)),
            seqno : -1 .. MaxProducts] :
       h.ok \/ (h.msg_size = PROD_HDR_LEN + 1 /\ h.seqno = 0)}

\* parse_msghdr's p_prod->size = msg_size - PROD_HDR_LEN, stored in a size_t
parse_msghdr(h) == (h.msg_size - PROD_HDR_LEN) % (2 ^ SizeBits)

\* recv_msghdr's checks with the size test left out
recv_msghdr_AnySize(h, seqno) ==
    IF ~h.ok THEN -1
    ELSE IF ~seqno_ok(h.seqno, seqno) THEN -1
    ELSE 0

\* recv_msghdr: read and parse the header, check seqno and size
recv_msghdr(h, seqno) ==
    IF ~h.ok THEN -1
    ELSE IF ~seqno_ok(h.seqno, seqno) THEN -1
    ELSE IF parse_msghdr(h) <= 0 \/ parse_msghdr(h) > MAX_PROD_SIZE THEN -1
    ELSE 0

\* an output path that holds no file
NoOut == [exists |-> FALSE, bytes |-> 0, open |-> FALSE, pub |-> FALSE]

\* get_out_path without the WMO file table: a name made of the worker's pid
\* and the seqno; -1 stands for what an unset filename buffer holds
OutNames == 0 .. MaxProducts

\* an abort_recv that leaves the file where it is
abort_recv_Keep(w) == w

\* abort_recv: unlink the output file
abort_recv(w) ==
    IF w.prod.filename \in OutNames
      THEN [w EXCEPT !.out[w.prod.filename] = NoOut]
      ELSE w

\* a write_block that drops the last byte of the block and reports success
write_block_Short(w, n) ==
    {[w EXCEPT !.out[w.prod.filename].bytes = @ + n - 1]}

\* write_block and what recv_prod does with its result
\* (serv_recv.c:305-318): the block is written, or the write fails and
\* the file is closed and removed and the ack code set to R
write_block(w, n) ==
    {[w EXCEPT !.out[w.prod.filename].bytes = @ + n],
     [abort_recv([w EXCEPT !.out[w.prod.filename].open = FALSE])
         EXCEPT !.out_fd = -1, !.ack_code = ACK_RETRY,
                !.wfail = w.bytes_left - n]}

\* open_out_file: O_TRUNC or O_EXCL by the overwrite flag, write-only
\* permissions with the toggle flag.  In O_EXCL mode an existing file makes
\* it sleep and retry until a shutdown or disconnect signal.
open_out_file(w) ==
    LET f == w.prod.filename
        failed == [w EXCEPT !.out_fd = -1, !.ack_code = ACK_RETRY]
    IN  IF DISCONNECT_FLAG \in w.Flags \/ f \notin OutNames
          THEN {failed}
          ELSE IF ~w.opt.overwrite /\ w.out[f].exists
            THEN {[failed EXCEPT !.Flags = @ \cup fl]
                    : fl \in {{SHUTDOWN_FLAG}, {DISCONNECT_FLAG},
                              {SHUTDOWN_FLAG, DISCONNECT_FLAG}}}
            ELSE {failed,
                  [w EXCEPT !.out_fd = 0,
                            !.out[f] = [exists |-> TRUE, bytes |-> 0, open |-> TRUE,
                                        pub |-> ~w.opt.toggle]]}

\* send_ack and the return to service: the ack goes out and service expects
\* the next seqno, or the send fails and service leaves its loop.  ack
\* records the ack sent, with the state of the output file at that moment.
send_ack(w, conn) ==
    {[w EXCEPT !.pc = "hdr", !.seqno = w.prod.seqno + 1, !.op = "ack",
               !.ack = [seqno |-> w.prod.seqno, code |-> w.ack_code,
                        conn |-> conn, size |-> w.prod.size,
                        got |-> w.got, wfail |-> w.wfail,
                        file |-> IF w.prod.filename \in OutNames
                                   THEN w.out[w.prod.filename]
                                   ELSE NoOut]],
     [w EXCEPT !.pc = "exit", !.op = "exit"]}

\* recv_prod after the last block (serv_recv.c:323-361): close, publish,
\* finish_recv, ack
finish(w) ==
    IF w.out_fd < 0 THEN send_ack(w, FALSE)
    ELSE LET c == [w EXCEPT !.out_fd = -1, !.out[w.prod.filename].open = FALSE]
             codes == UNION {send_ack([c EXCEPT !.out[c.prod.filename].pub = TRUE,
                                                !.ack_code = k], FALSE)
                               : k \in {ACK_OK, ACK_RETRY, ACK_FAIL}}
         IN  IF w.opt.toggle
               THEN codes \cup send_ack([abort_recv(c) EXCEPT !.ack_code = ACK_RETRY],
                                        FALSE)
               ELSE codes

\* recv_conn_msg: read the rest of the message, parse it, ack K or F
recv_conn_msg(w) ==
    {[w EXCEPT !.pc = "exit", !.op = "exit"]}
      \cup UNION {send_ack([w EXCEPT !.bytes_left = 0, !.got = w.prod.size,
                                     !.ack_code = k], TRUE)
                    : k \in {ACK_OK, ACK_FAIL}}

\* one pass of recv_prod's loop with n bytes received
\* (serv_recv.c:240-320), and what follows the loop when no byte is left
recv_prod(w, n) ==
    LET first == w.bytes_left = w.prod.size
        named == {[w EXCEPT !.prod.filename = w.prod.seqno],
                  [w EXCEPT !.ack_code = ACK_FAIL]}
        opened == IF first THEN UNION {open_out_file(x) : x \in named} ELSE {w}
        written == UNION {IF x.out_fd < 0 THEN {x} ELSE write_block(x, n)
                            : x \in opened}
        left == {[x EXCEPT !.bytes_left = @ - n, !.got = @ + n, !.op = "block"]
                   : x \in written}
    IN  IF n < 0
          THEN {[(IF first THEN w
                  ELSE abort_recv([w EXCEPT !.out_fd = -1,
                                            !.out = [f \in DOMAIN w.out |->
                                                      [w.out[f] EXCEPT !.open = FALSE]]]))
                    EXCEPT !.pc = "exit", !.op = "exit"]}
          ELSE (IF first /\ w.prod.seqno = 0 /\ w.opt.connect_wmo
                  THEN recv_conn_msg(w) ELSE {})
               \cup UNION {IF x.bytes_left > 0 THEN {x} ELSE finish(x) : x \in left}

\* service before its loop (serv_recv.c:79-96).  prod is an automatic
\* variable that nothing initialises: its filename holds whatever was there.
\* The last six fields are history: what the last step did, the header last
\* read with recv_msghdr's result and the seqno accepted before it (-1: none),
\* the bytes read of the current product and how many of its bytes were
\* still to be read when a write of it failed (-1: none failed), and the ack
\* last sent.
WkInits ==
    {[pc |-> "hdr", opt |-> o, Flags |-> {}, seqno |-> 0,
      prod |-> [seqno |-> 0, size |-> 0, filename |-> f],
      bytes_left |-> 0, out_fd |-> -1, ack_code |-> ACK_BAD, nprod |-> 0,
      out |-> [x \in OutNames |-> NoOut],
      op |-> "none",
      hdr |-> [h |-> [ok |-> FALSE, msg_size |-> 0, seqno |-> 0], rc |-> 0,
               prev |-> -1],
      got |-> 0, wfail |-> -1,
      ack |-> [seqno |-> 0, code |-> ACK_BAD, conn |-> FALSE, size |-> 0,
               got |-> 0, wfail |-> -1, file |-> NoOut]]
       : o \in [overwrite : BOOLEAN, toggle : BOOLEAN, connect_wmo : BOOLEAN],
         f \in {-1} \cup OutNames}

\* service's loop up to recv_prod (serv_recv.c:97-108): leave on a flag,
\* else read a header
WkHdr ==
    /\ wk.pc = "hdr"
    /\ UNCHANGED <<sendvars, now, pq, dsp>>
    /\ IF wk.Flags # {}
         THEN wk' = [wk EXCEPT !.pc = "exit", !.op = "exit"]
         ELSE /\ wk.nprod < MaxProducts
              /\ \E h \in Headers :
                   LET rc == recv_msghdr(h, wk.seqno)
                       w1 == [wk EXCEPT !.op = "hdr", !.nprod = @ + 1,
                                        !.hdr = [h |-> h, rc |-> rc,
                                                 prev |-> IF wk.nprod = 0 THEN -1
                                                          ELSE wk.prod.seqno]]
                   IN  wk' = IF rc < 0 THEN [w1 EXCEPT !.pc = "exit"]
                             ELSE [w1 EXCEPT !.pc = "body",
                                             !.prod.seqno = h.seqno,
                                             !.prod.size = parse_msghdr(h),
                                             !.bytes_left = parse_msghdr(h),
                                             !.out_fd = -1,
                                             !.ack_code = ACK_BAD,
                                             !.got = 0,
                                             !.wfail = -1]

\* one recv_block of recv_prod and what recv_prod does with it; recv_block
\* returns -1 at once when the disconnect flag is set
WkBlock ==
    /\ wk.pc = "body"
    /\ UNCHANGED <<sendvars, now, pq, dsp>>
    /\ LET first == wk.bytes_left = wk.prod.size
           minsiz == IF ~first THEN 1
                     ELSE IF wk.prod.size < FIRST_BLK_SIZE THEN wk.prod.size
                     ELSE FIRST_BLK_SIZE
           recvsiz == IF wk.bytes_left < BufSize THEN wk.bytes_left ELSE BufSize
       IN  \E n \in {-1} \cup (IF DISCONNECT_FLAG \in wk.Flags THEN {}
                               ELSE minsiz .. recvsiz) :
             wk' \in recv_prod(wk, n)

\* a signal handler sets the shutdown flag (SIGTERM) or the disconnect flag
\* (SIGPIPE, SIGALRM)
WkSignal ==
    /\ wk.pc \in {"hdr", "body", "open"}
    /\ UNCHANGED <<sendvars, now, pq, dsp>>
    /\ \E f \in {SHUTDOWN_FLAG, DISCONNECT_FLAG} \ wk.Flags :
         wk' = [wk EXCEPT !.Flags = @ \cup {f}, !.op = "signal"]

InitWorker ==
    /\ \E o \in Opts : ~o.connect_wmo /\ InitWith(o, 0)
    /\ wk \in WkInits
    /\ pq = WkOff
    /\ dsp = WkOff

NextWorker ==
    \/ WkHdr
    \/ WkBlock
    \/ WkSignal

SpecWorker == InitWorker /\ [][NextWorker]_vars

\* C12: a header is accepted only if it parses, its seqno is the seqno
\* accepted before it plus 1 (0 for the first header of the connection) or is
\* 0, and its size msg_size - PROD_HDR_LEN is in 1 .. MAX_PROD_SIZE; a header
\* with another seqno or another size makes service leave its loop, and the
\* step sends no ack.
C12_HeaderChecks ==
    /\ [](wk.op = "hdr" =>
            LET h == wk.hdr.h
                want == IF wk.hdr.prev = -1 THEN 0 ELSE wk.hdr.prev + 1
                size == h.msg_size - PROD_HDR_LEN
            IN  /\ wk.hdr.rc = 0 =>
                      /\ h.ok
                      /\ h.seqno = want \/ h.seqno = 0
                      /\ size >= 1 /\ size <= MAX_PROD_SIZE
                      /\ wk.pc = "body"
                /\ (h.seqno \notin {want, 0} \/ size <= 0 \/ size > MAX_PROD_SIZE) =>
                      /\ wk.hdr.rc < 0
                      /\ wk.pc = "exit")
    /\ [][(wk'.op = "hdr" /\ wk'.hdr.rc < 0) => wk'.ack = wk.ack]_vars

\* a well-formed header with an acceptable seqno was turned down for a
\* msg_size below PROD_HDR_LEN, after a product had been received
C12_Witness ==
    /\ wk.op = "hdr"
    /\ wk.hdr.prev >= 0
    /\ wk.hdr.h.ok
    /\ wk.hdr.h.seqno = wk.hdr.prev + 1
    /\ wk.hdr.h.msg_size < PROD_HDR_LEN
    /\ wk.hdr.rc < 0
    /\ wk.pc = "exit"

\* C13: an ack K for a product recv_prod stores (every product but a
\* connection message, which has no output file) is sent only when all size
\* bytes of the body have been written to the output file, the file is
\* closed and, with the toggle flag, made readable: K is never sent while the
\* file is missing or partial.
C13_AckOkAfterStore ==
    (wk.op = "ack" /\ wk.ack.code = ACK_OK /\ ~wk.ack.conn) =>
        /\ wk.ack.file.exists
        /\ wk.ack.file.bytes = wk.ack.size
        /\ wk.ack.got = wk.ack.size
        /\ ~wk.ack.file.open
        /\ wk.ack.file.pub

\* K was sent for a product of several blocks with the toggle flag set
C13_Witness ==
    /\ wk.op = "ack"
    /\ wk.ack.code = ACK_OK
    /\ ~wk.ack.conn
    /\ wk.opt.toggle
    /\ wk.ack.size = MAX_PROD_SIZE
    /\ wk.ack.file.bytes = MAX_PROD_SIZE

\* C14: when the write of a block fails the step removes the output file;
\* the blocks read after it are discarded without bringing the file back;
\* the ack sent for the product is R, carries the product's seqno, is sent
\* once all size bytes have been read and while no output file exists, and
\* leaves service in its loop expecting the next seqno.
C14_WriteFailure ==
    /\ [](wk.op = "ack" /\ wk.ack.wfail >= 0 =>
            /\ wk.ack.code = ACK_RETRY
            /\ wk.ack.seqno = wk.hdr.h.seqno
            /\ wk.ack.got = wk.ack.size
            /\ ~wk.ack.file.exists
            /\ wk.pc = "hdr"
            /\ wk.seqno = wk.ack.seqno + 1)
    /\ [][/\ (wk.pc = "body" /\ wk'.wfail >= 0 /\ wk'.op \in {"block", "ack"}) =>
                /\ wk'.out[wk'.prod.filename] = NoOut
                /\ wk'.got > wk.got
          /\ (wk.pc = "body" /\ wk.wfail >= 1 /\ wk'.op = "ack") =>
                wk'.ack.got = wk.got + wk.bytes_left]_vars

\* the first block of a product could not be written, the rest of the
\* product was read, and R was sent
C14_Witness ==
    /\ wk.op = "ack"
    /\ wk.ack.wfail >= 1
    /\ wk.ack.got = MAX_PROD_SIZE
    /\ wk.ack.code = ACK_RETRY
    /\ wk.pc = "hdr"

----------------------------------------------------------------------------
(* The poller and the window                                               *)

\* C15: a refresh puts no file into the snapshot that is the product of a
\* slot on the awaiting-ack or on the retry list, and the file a call of
\* get_next_file hands out is not in flight: no slot that is off the free
\* list holds it.
C15_NoInFlightFileHandedOut ==
    [][(/\ pc = "acquire"
        /\ pc' # "acquire"
        /\ p_prod = NULL
        /\ prod_tbl.ack_list.count < opt.window_size
        /\ prod_tbl.retr_list.count = 0
        /\ prod_tbl.free_list.p_head # NULL) =>
          LET listed == SeqToSet(Chain(prod_tbl, "ack_list"))
                          \cup SeqToSet(Chain(prod_tbl, "retr_list"))
              inuse  == (0 .. opt.window_size - 1)
                          \ SeqToSet(Chain(prod_tbl, "free_list"))
          IN  /\ (queue' # queue \/ qidx' <= qidx) =>
                    \A k \in 1 .. Len(queue') : \A s \in listed :
                      queue'[k].filename # prod_tbl.prod[s].filename
              /\ p_prod' # NULL =>
                    \A s \in inuse :
                      prod_tbl'.prod[p_prod'].filename # prod_tbl.prod[s].filename]_vars

----------------------------------------------------------------------------
(* The poller on its own: several input directories (client_queue.c)       *)

\* a compare_items that looks at the mtime only
compare_items_TimeOnly(p_pi1, p_pi2) ==
    IF p_pi1.queue_time > p_pi2.queue_time THEN 1
    ELSE IF p_pi1.queue_time < p_pi2.queue_time THEN -1
    ELSE 0

\* compare_items: 1 if item 2 comes before item 1, -1 if item 1 comes
\* before item 2, 0 if they tie
compare_items(p_pi1, p_pi2) ==
    IF p_pi1.priority < p_pi2.priority THEN 1
    ELSE IF p_pi1.priority > p_pi2.priority THEN -1
    ELSE IF p_pi1.queue_time > p_pi2.queue_time THEN 1
    ELSE IF p_pi1.queue_time < p_pi2.queue_time THEN -1
    ELSE 0

\* qsort with compare_items: every arrangement of the items that is in
\* order; items that tie may come out either way
qsort(q) ==
    {s \in [1 .. Len(q) -> SeqToSet(q)] :
        /\ \A x \in SeqToSet(q) : \E k \in 1 .. Len(q) : s[k] = x
        /\ \A k1, k2 \in 1 .. Len(q) :
             k1 < k2 => compare_items(s[k1], s[k2]) <= 0}

\* the two loops of a poll: directory d (priority NumDirs - d: the first
\* directory has the highest) is read from its k-th entry on, in readdir
\* order.  An entry that is no readable regular file, or a fresh empty one,
\* or in the window, is skipped.  The break of the cap leaves the readdir
\* loop only: the poll goes on with the next directory.
RECURSIVE poll_dirs(_, _, _, _, _, _)
poll_dirs(dirs, win, max, q, d, k) ==
    IF d > NumDirs THEN q
    ELSE IF k > Len(dirs[d]) THEN poll_dirs(dirs, win, max, q, d + 1, 1)
    ELSE LET e    == dirs[d][k]
             path == <<d, e.name>>
         IN  IF ~e.ok \/ path \in win
               THEN poll_dirs(dirs, win, max, q, d, k + 1)
               ELSE LET q1 == Append(q, [filename   |-> path,
                                         queue_time |-> e.mtime,
                                         priority   |-> NumDirs - d])
                    IN  IF max > 0 /\ Len(q1) >= max
                          THEN poll_dirs(dirs, win, max, q1, d + 1, 1)
                          ELSE poll_dirs(dirs, win, max, q1, d, k + 1)

\* One call of get_next_file.  win stands for check_window: the files that
\* were returned and are the current product or on the awaiting-ack or the
\* retry list.  ret is the history of the entries returned from the snapshot
\* at hand, rc the value of the last call (NULL: no call yet).
PqCall ==
    /\ pq.pc = "poll"
    /\ \E due \in BOOLEAN :
         /\ due => pq.opt.refresh_interval > 0
         /\ LET refresh == (Len(pq.queue) - pq.qidx = 0) \/ due
            IN  \E q1 \in (IF refresh
                            THEN qsort(poll_dirs(pq.dirs, pq.win,
                                                 pq.opt.max_queue_len, <<>>, 1, 1))
                            ELSE {pq.queue}) :
                  LET qi1  == IF refresh THEN 0 ELSE pq.qidx
                      qcnt == Len(q1)
                      ret1 == IF refresh THEN <<>> ELSE pq.ret
                  IN  IF /\ qcnt - qi1 > 0
                         /\ \/ ~pq.opt.wait_last_file
                            \/ q1[qi1 + 1].queue_time < q1[qcnt].queue_time
                        THEN pq' = [pq EXCEPT !.queue = q1,
                                              !.qidx = qi1 + 1,
                                              !.rc = qcnt - (qi1 + 1) + 1,
                                              !.win = @ \cup {q1[qi1 + 1].filename},
                                              !.ret = Append(ret1, q1[qi1 + 1])]
                        ELSE pq' = [pq EXCEPT !.queue = q1,
                                              !.qidx = qi1,
                                              !.rc = 0,
                                              !.ret = ret1]
    /\ UNCHANGED <<sendvars, now, wk, dsp>>

\* A product is done: finish_send or abort_send has moved its file out of
\* the input directory and its slot has left the window.
PqFinish ==
    /\ pq.pc = "poll"
    /\ \E path \in pq.win :
         LET d == path[1]
             keep == {k \in 1 .. Len(pq.dirs[d]) : pq.dirs[d][k].name # path[2]}
             RECURSIVE pick(_)
             pick(k) == IF k > Len(pq.dirs[d]) THEN <<>>
                        ELSE IF k \in keep THEN <<pq.dirs[d][k]>> \o pick(k + 1)
                        ELSE pick(k + 1)
         IN  pq' = [pq EXCEPT !.win = @ \ {path}, !.dirs[d] = pick(1)]
    /\ UNCHANGED <<sendvars, now, wk, dsp>>

\* The client has just started: nothing is in the window, no snapshot has
\* been taken; the directories hold any files, in any readdir order.  late
\* counts the files that arrive afterwards.
InitPoll ==
    /\ \E o \in Opts : ~o.connect_wmo /\ InitWith(o, 0)
    /\ wk = WkOff
    /\ dsp = WkOff
    /\ \E raw \in [1 .. NumDirs ->
                     UNION {[1 .. n -> [mtime : 1 .. MaxMtime, ok : BOOLEAN]] :
                              n \in 0 .. MaxDirLen}] :
       \E o \in [max_queue_len : {0, MaxQueueLen}, wait_last_file : BOOLEAN,
                 refresh_interval : {0, 1}] :
         pq = [pc    |-> "poll",
               opt   |-> o,
               dirs  |-> [d \in 1 .. NumDirs |->
                            [k \in 1 .. Len(raw[d]) |->
                               [name |-> k, mtime |-> raw[d][k].mtime,
                                ok |-> raw[d][k].ok, late |-> FALSE]]],
               late  |-> 0,
               win   |-> {},
               queue |-> <<>>,
               qidx  |-> 0,
               rc    |-> NULL,
               ret   |-> <<>>]

NextPoll ==
    \/ PqCall
    \/ PqFinish

SpecPoll == InitPoll /\ [][NextPoll]_vars

\* C16: the entries of a snapshot are returned in snapshot order, and in a
\* snapshot an entry of an earlier input directory stands before every entry
\* of a later one, whatever their mtimes, and within one directory an older
\* entry before a newer one.
C16_SnapshotOrder ==
    pq.pc = "poll" =>
      /\ pq.ret = SubSeq(pq.queue, 1, pq.qidx)
      /\ \A k1, k2 \in 1 .. Len(pq.queue) :
           k1 < k2 =>
             \/ pq.queue[k1].filename[1] < pq.queue[k2].filename[1]
             \/ /\ pq.queue[k1].filename[1] = pq.queue[k2].filename[1]
                /\ pq.queue[k1].queue_time <= pq.queue[k2].queue_time

\* two files of the first directory, oldest first, have been returned and
\* then an older file of the second directory
C16_Witness ==
    /\ pq.pc = "poll"
    /\ Len(pq.ret) = 3
    /\ pq.ret[1].filename[1] = 1
    /\ pq.ret[2].filename[1] = 1
    /\ pq.ret[3].filename[1] = 2
    /\ pq.ret[1].queue_time < pq.ret[2].queue_time
    /\ pq.ret[3].queue_time < pq.ret[1].queue_time

\* C17: with max_queue_len positive, a snapshot holds at most max_queue_len
\* entries.
C17_SnapshotCap ==
    (pq.pc = "poll" /\ pq.opt.max_queue_len > 0) =>
      Len(pq.queue) <= pq.opt.max_queue_len

\* C18: with wait_last_file, every entry returned from a snapshot is
\* strictly older than the newest mtime in the snapshot; once a call
\* returns nothing, every entry that is strictly older than the newest has
\* been returned; and a snapshot of one entry returns nothing.
C18_WaitLastFile ==
    (pq.pc = "poll" /\ pq.opt.wait_last_file /\ Len(pq.queue) > 0) =>
      LET times  == {pq.queue[k].queue_time : k \in 1 .. Len(pq.queue)}
          newest == CHOOSE m \in times : \A t \in times : t <= m
      IN  /\ \A k \in 1 .. Len(pq.ret) : pq.ret[k].queue_time < newest
          /\ pq.rc = 0 =>
               \A k \in 1 .. Len(pq.queue) :
                 pq.queue[k].queue_time < newest => k <= pq.qidx
          /\ Len(pq.queue) = 1 => pq.ret = <<>>

----------------------------------------------------------------------------
(* The dispatcher and its workers (serv_dispatch.c)                        *)

\* a slot search that takes the first slot whatever it holds
fork_slot_First(d) == 0

\* fork_service's search for an available worker slot: the first slot whose
\* pid is <= 0, max_worker when there is none
fork_slot(d) ==
    LET free == {k \in 0 .. d.max_worker - 1 : d.WorkerPids[k] <= 0}
    IN  IF free = {} THEN d.max_worker
        ELSE CHOOSE k \in free : \A k2 \in free : k <= k2

\* verify_workers: recount the workers, dropping from the table the pids
\* for which kill(pid, 0) fails; it succeeds for a process that runs and
\* for one that has exited and was not waited for
verify_workers(d) ==
    LET alive == {k \in 0 .. d.max_worker - 1 :
                    d.WorkerPids[k] > 0 /\ d.WorkerPids[k] \in d.running \cup d.zombies}
    IN  [d EXCEPT !.WorkerCount = Cardinality(alive),
                  !.WorkerPids = [k \in 0 .. d.max_worker - 1 |->
                                    IF d.WorkerPids[k] > 0 /\ k \notin alive
                                      THEN 0 ELSE d.WorkerPids[k]]]

\* wait_for_worker once waitpid(0, , WNOHANG) has returned child_pid: the
\* first slot that holds child_pid is cleared and WorkerCount decremented
wait_for_worker(d, child_pid) ==
    LET hit == {k \in 0 .. d.max_worker - 1 : d.WorkerPids[k] = child_pid}
    IN  IF child_pid = -1 \/ hit = {} THEN d
        ELSE LET k == CHOOSE k1 \in hit : \A k2 \in hit : k1 <= k2
             IN  [d EXCEPT !.WorkerPids[k] = 0, !.WorkerCount = @ - 1]

\* a kill_workers that signals nobody
kill_workers_None(d) == {}

\* kill_workers: the pids SIGTERM is sent to, those of the slots that hold a
\* pid > 0
kill_workers(d) ==
    {d.WorkerPids[k] : k \in {k1 \in 0 .. d.max_worker - 1 : d.WorkerPids[k1] > 0}}

\* Top of the dispatcher's loop, also where it gets after the sleep: the
\* shutdown test and the capacity check before accept (the listening socket
\* is taken to be open).  Leaving the loop, the dispatcher shuts the
\* listening socket down, closes it and calls kill_workers.
DspTop ==
    /\ dsp.pc \in {"top", "sleep"}
    /\ IF SHUTDOWN_FLAG \in dsp.Flags
         THEN dsp' = [dsp EXCEPT !.pc = "exit", !.op = "exit",
                                 !.listen_sd = -1,
                                 !.sigterm = kill_workers(dsp)]
         ELSE IF dsp.max_worker > 0
           THEN LET d1 == IF dsp.WorkerCount >= dsp.max_worker
                            THEN verify_workers(dsp) ELSE dsp
                IN  IF d1.WorkerCount >= d1.max_worker
                      THEN dsp' = [d1 EXCEPT !.pc = "sleep", !.op = "sleep"]
                      ELSE dsp' = [d1 EXCEPT !.pc = "accept", !.op = "check"]
           ELSE dsp' = [dsp EXCEPT !.pc = "accept", !.op = "check"]
    /\ UNCHANGED <<sendvars, now, wk, pq>>

\* A connection arrives and accept returns it.  With max_worker = 0 the
\* dispatcher serves it itself; else fork_service runs up to the fork.  When
\* the fork succeeds the worker runs from here on, with its own copy of the
\* table of pids, in which fork has put 0 in its slot, and the parent has yet
\* to store its pid.
DspAccept ==
    /\ dsp.pc = "accept"
    /\ IF dsp.max_worker = 0
         THEN dsp' = [dsp EXCEPT !.pc = "top", !.op = "accept", !.conn = "served"]
         ELSE LET i_wrkr == fork_slot(dsp)
              IN  IF i_wrkr >= dsp.max_worker
                    THEN dsp' = [verify_workers(dsp) EXCEPT
                                   !.pc = "top", !.op = "accept", !.conn = "refused"]
                    ELSE \/ /\ dsp.nextpid <= MaxForks
                            /\ dsp' = [dsp EXCEPT !.pc = "store",
                                                  !.op = "accept",
                                                  !.conn = "forked",
                                                  !.i_wrkr = i_wrkr,
                                                  !.pid = dsp.nextpid,
                                                  !.nextpid = @ + 1,
                                                  !.running = @ \cup {dsp.nextpid},
                                                  !.tables[dsp.nextpid] =
                                                     [dsp.WorkerPids EXCEPT
                                                        ![i_wrkr] = 0]]
                         \/ dsp' = [dsp EXCEPT !.pc = "top",
                                               !.op = "accept",
                                               !.conn = "refused",
                                               !.WorkerPids[i_wrkr] = -1]
    /\ UNCHANGED <<sendvars, now, wk, pq>>

\* the parent's half of WorkerPids[i_wrkr] = fork(), and the rest of the
\* loop body
DspStore ==
    /\ dsp.pc = "store"
    /\ dsp' = [dsp EXCEPT !.pc = "top", !.op = "store",
                          !.WorkerPids[dsp.i_wrkr] = dsp.pid,
                          !.i_wrkr = NULL, !.pid = 0]
    /\ UNCHANGED <<sendvars, now, wk, pq>>

\* a worker's service returns and the worker exits: SIGCHLD becomes pending
\* for the dispatcher (a signal that is already pending is not queued twice)
WorkerExit ==
    /\ dsp.pc # "off"
    /\ \E p \in dsp.running :
         dsp' = [dsp EXCEPT !.running = @ \ {p}, !.zombies = @ \cup {p},
                            !.tables[p] = <<>>, !.sigchld = TRUE]
    /\ UNCHANGED <<sendvars, now, wk, pq>>

\* child_sighandler: one waitpid, which takes any one of the workers that
\* have exited.  The handlers are installed without SA_RESTART: an accept or
\* a sleep that the signal interrupts returns and the loop starts over.
DspSigchld ==
    /\ dsp.pc \notin {"off", "exit"}
    /\ dsp.sigchld
    /\ \E child_pid \in (IF dsp.zombies # {} THEN dsp.zombies
                         ELSE IF dsp.running # {} THEN {0} ELSE {-1}) :
         dsp' = [wait_for_worker(dsp, child_pid) EXCEPT
                   !.sigchld = FALSE,
                   !.zombies = @ \ {child_pid},
                   !.op = "sigchld",
                   !.pc = IF @ \in {"accept", "sleep"} THEN "top" ELSE @]
    /\ UNCHANGED <<sendvars, now, wk, pq>>

\* stop_sighandler: the first signal sets the shutdown flag, the second one
\* kills the workers and exits where it stands, the listening socket as it
\* is
DspSigterm ==
    /\ dsp.pc \notin {"off", "exit"}
    /\ IF SHUTDOWN_FLAG \notin dsp.Flags
         THEN dsp' = [dsp EXCEPT !.Flags = @ \cup {SHUTDOWN_FLAG},
                                 !.op = "sigterm",
                                 !.pc = IF @ \in {"accept", "sleep"} THEN "top" ELSE @]
         ELSE dsp' = [dsp EXCEPT !.pc = "exit", !.op = "sigexit",
                                 !.sigterm = kill_workers(dsp)]
    /\ UNCHANGED <<sendvars, now, wk, pq>>

\* dispatcher has zeroed WorkerCount and the table and is about to enter its
\* loop with the listening socket open; no connection has arrived and no
\* signal has been sent.  tables holds each worker's copy of WorkerPids,
\* wflags its Flags and wsigterm the pairs of a worker and a pid it has sent
\* SIGTERM to.  A client (another process, on its own host) has
\* just started, nfaults of its environment faults spent.
InitDispatchWith(nfaults) ==
    /\ \E o \in Opts : ~o.connect_wmo /\ InitWith(o, nfaults)
    /\ wk = WkOff
    /\ pq = WkOff
    /\ \E m \in 0 .. MaxWorker :
         dsp = [pc          |-> "top",
                max_worker  |-> m,
                Flags       |-> {},
                WorkerPids  |-> [k \in 0 .. m - 1 |-> 0],
                WorkerCount |-> 0,
                i_wrkr      |-> NULL,
                pid         |-> 0,
                nextpid     |-> 1,
                running     |-> {},
                zombies     |-> {},
                sigchld     |-> FALSE,
                listen_sd   |-> 0,
                sigterm     |-> {},
                tables      |-> [p \in 1 .. MaxForks |-> <<>>],
                wflags      |-> [p \in 1 .. MaxForks |-> {}],
                wsigterm    |-> {},
                op          |-> "none",
                conn        |-> "none"]

InitDispatch == InitDispatchWith(0)

NextDispatch ==
    \/ DspTop
    \/ DspAccept
    \/ DspStore
    \/ WorkerExit
    \/ DspSigchld
    \/ DspSigterm

SpecDispatch == InitDispatch /\ [][NextDispatch]_vars

\* C19: at no time do more than max_worker worker processes run.
C19_WorkersBounded ==
    dsp.pc # "off" => Cardinality(dsp.running) <= dsp.max_worker

\* max_worker workers run, a further connection has arrived and no worker
\* was forked for it
C19_Witness ==
    /\ dsp.pc # "off"
    /\ dsp.max_worker = MaxWorker
    /\ Cardinality(dsp.running) = dsp.max_worker
    /\ dsp.op = "accept"
    /\ dsp.conn = "refused"

\* C20: while max_worker workers run, the dispatcher takes no connection
\* from accept, and a pass through the top of its loop ends in the sleep,
\* with WorkerCount the number of workers verified.
C20_NoAcceptWhenFull ==
    [][(/\ dsp.pc # "off"
        /\ dsp.max_worker > 0
        /\ Cardinality(dsp.running) = dsp.max_worker
        /\ SHUTDOWN_FLAG \notin dsp.Flags) =>
          /\ ~(dsp.pc = "accept" /\ dsp'.op = "accept")
          /\ (dsp.pc \in {"top", "sleep"} /\ dsp'.op \in {"check", "sleep"}) =>
                /\ dsp'.pc = "sleep"
                /\ dsp'.WorkerCount = dsp.max_worker]_vars

\* The dispatcher keeps running and a pending SIGCHLD is delivered; nothing
\* makes a connection arrive, a worker exit or a termination signal come.
SpecDispatchLive ==
    /\ InitDispatch
    /\ [][NextDispatch]_vars
    /\ WF_vars(DspTop)
    /\ WF_vars(DspStore)
    /\ WF_vars(DspSigchld)

\* C21: a worker that has exited is eventually waited for and, from some
\* point on for good, no slot of the worker table holds its pid (unless the
\* dispatcher itself exits first).
C21_ExitedWorkerReaped ==
    \A p \in 1 .. MaxForks :
      [](p \in dsp.zombies =>
           <>[](\/ dsp.pc = "exit"
                \/ /\ p \notin dsp.zombies
                   /\ \A k \in DOMAIN dsp.WorkerPids : dsp.WorkerPids[k] # p))

----------------------------------------------------------------------------
(* Termination signals                                                     *)

\* a client whose environment has no fault left and a dispatcher, each of
\* them sent termination signals at any time
NextStop ==
    \/ ClientStep
    \/ SrvRecv
    \/ StopSignal
    \/ NextDispatch

SpecStop == InitDispatchWith(MaxFaults) /\ [][NextStop]_vars

\* C22: once the shutdown flag is set, the client's send loop leaves at its
\* loop test and the dispatcher's loop leaves at its loop test without
\* starting another accept or sleep; the dispatcher that leaves its loop has
\* closed the listening socket and has sent SIGTERM to every pid > 0 of its
\* table.
C22_StopAtLoopTest ==
    [][/\ (pc = "top" /\ SHUTDOWN_FLAG \in Flags /\ pc' # pc) =>
             (pc' = "exit" /\ sock_fd' = -1)
       /\ (dsp.pc = "top" /\ SHUTDOWN_FLAG \in dsp.Flags /\ dsp'.pc # dsp.pc) =>
             /\ dsp'.pc = "exit"
             /\ dsp'.op = "exit" =>
                   /\ dsp'.listen_sd = -1
                   /\ \A k \in DOMAIN dsp.WorkerPids :
                        dsp.WorkerPids[k] > 0 => dsp.WorkerPids[k] \in dsp'.sigterm
       /\ (SHUTDOWN_FLAG \in dsp.Flags /\ dsp.pc # "exit") =>
             dsp'.pc \notin {"accept", "sleep"}
       /\ (SHUTDOWN_FLAG \in Flags /\ pc = "top") => pc' \in {"top", "exit"}]_vars

\* both have left their loops on the flag, the dispatcher with two workers
\* in its table
C22_Witness ==
    /\ pc = "exit" /\ SHUTDOWN_FLAG \in Flags
    /\ dsp.pc = "exit" /\ dsp.op = "exit" /\ dsp.listen_sd = -1
    /\ Cardinality(dsp.sigterm) = 2

----------------------------------------------------------------------------
(* The header and the ack as text (share.c, recv_ack)                      *)

\* a conversion that writes the digits the number has and no more
sprintf_d_NoPad(n, w) ==
    LET RECURSIVE dec(_)
        dec(m) == IF m < 10 THEN <<ToString(m)>>
                  ELSE dec(m \div 10) \o <<ToString(m % 10)>>
    IN  IF n < 0 THEN <<"-">> \o dec(-n) ELSE dec(n)

\* sprintf's "%.<w>d" and "%.<w>ld": the decimal digits of n, zeros in front
\* up to w digits, a '-' before them when n < 0; never cut to w
sprintf_d(n, w) ==
    LET RECURSIVE dec(_)
        dec(m) == IF m < 10 THEN <<ToString(m)>>
                  ELSE dec(m \div 10) \o <<ToString(m % 10)>>
        abs == IF n < 0 THEN -n ELSE n
        pad == IF Len(dec(abs)) >= w THEN dec(abs)
               ELSE [k \in 1 .. (w - Len(dec(abs))) |-> "0"] \o dec(abs)
    IN  IF n < 0 THEN <<"-">> \o pad ELSE pad

\* format_msghdr with MAX_PROD_SIZE and MAX_PROD_SEQNO at the values of
\* share.h, 99999999 - PROD_HDR_LEN and 99999: the return value and the
\* bytes copied to buf (SOH is \001)
format_msghdr(p) ==
    IF p.size <= 0 \/ p.size > 99999999 - PROD_HDR_LEN
      THEN [rc |-> -1, buf |-> <<>>]
    ELSE IF p.seqno < 0 \/ p.seqno > 99999
      THEN [rc |-> -1, buf |-> <<>>]
    ELSE LET msg_size == PROD_HDR_LEN + p.size
             scratchbuf == sprintf_d(msg_size, 8)
                             \o <<"B", "I", "SOH", "CR", "CR", "LF">>
                             \o sprintf_d(p.seqno, 5)
                             \o sprintf_d(p.queue_time, 10)
                             \o <<"CR", "CR", "LF">>
         IN  IF Len(scratchbuf) # MSG_HDR_LEN + PROD_HDR_LEN
               THEN [rc |-> -1, buf |-> <<>>]
               ELSE [rc |-> MSG_HDR_LEN + PROD_HDR_LEN, buf |-> scratchbuf]

\* parse_msghdr on the bytes of buf: the sscanf of
\* "%8d%2s\001\r\r\n%5d%10ld\r\r\n".  A %d skips white space, takes an
\* optional sign and then digits, the field width counting both; %2s skips
\* white space and takes up to two bytes that are not white space; \001 has
\* to be the next byte; white space in the format skips any white space.
sscanf_msghdr(buf, buflen) ==
    LET space == {"CR", "LF"}
        digit == {ToString(k) : k \in 0 .. 9}
        value(c) == CHOOSE k \in 0 .. 9 : ToString(k) = c
        at(k) == IF k <= Len(buf) THEN buf[k] ELSE "NUL"
        RECURSIVE skip(_)
        skip(k) == IF at(k) \in space THEN skip(k + 1) ELSE k
        RECURSIVE digits(_, _, _)
        digits(k, w, acc) ==
            IF w > 0 /\ at(k) \in digit
              THEN digits(k + 1, w - 1, 10 * acc + value(at(k)))
              ELSE [pos |-> k, val |-> acc]
        scan_d(k0, w) ==
            LET k == skip(k0)
                signed == at(k) \in {"-", "+"} /\ w > 1
                d == digits(IF signed THEN k + 1 ELSE k,
                            IF signed THEN w - 1 ELSE w, 0)
            IN  [ok  |-> d.pos > (IF signed THEN k + 1 ELSE k),
                 pos |-> d.pos,
                 val |-> IF at(k) = "-" /\ signed THEN -d.val ELSE d.val]
        f1 == scan_d(1, 8)
        s0 == skip(f1.pos)
        s1 == IF at(s0) \in space \cup {"NUL"} THEN s0
              ELSE IF at(s0 + 1) \in space \cup {"NUL"} THEN s0 + 1 ELSE s0 + 2
        f3 == scan_d(skip(s1 + 1), 5)
        f4 == scan_d(f3.pos, 10)
    IN  IF buflen < MSG_HDR_LEN + PROD_HDR_LEN
          THEN [rc |-> -1]
        ELSE IF ~f1.ok \/ s1 = s0 \/ at(s1) # "SOH" \/ ~f3.ok \/ ~f4.ok
          THEN [rc |-> -1]
          ELSE [rc         |-> MSG_HDR_LEN + PROD_HDR_LEN,
                size       |-> f1.val - PROD_HDR_LEN,
                seqno      |-> f3.val,
                queue_time |-> f4.val]

\* format_ack: sprintf's "%5d%c", the digits of seqno with blanks in front
\* up to five bytes, then the code
format_ack(seqno, code) ==
    LET RECURSIVE dec(_)
        dec(m) == IF m < 10 THEN <<ToString(m)>>
                  ELSE dec(m \div 10) \o <<ToString(m % 10)>>
        num == IF seqno < 0 THEN <<"-">> \o dec(-seqno) ELSE dec(seqno)
        buf == (IF Len(num) >= 5 THEN num
                ELSE [k \in 1 .. (5 - Len(num)) |-> " "] \o num) \o <<code>>
    IN  IF Len(buf) # ACK_MSG_LEN THEN [rc |-> -1, buf |-> <<>>]
        ELSE [rc |-> ACK_MSG_LEN, buf |-> buf]

\* parse_ack: buflen is tested first, then the first six bytes of buf go
\* through the sscanf of "%d%c" (white space skipped, an optional sign,
\* digits, and the byte after them)
parse_ack(buf, buflen) ==
    LET digit == {ToString(k) : k \in 0 .. 9}
        value(c) == CHOOSE k \in 0 .. 9 : ToString(k) = c
        at(k) == IF k <= ACK_MSG_LEN /\ k <= Len(buf) THEN buf[k] ELSE "NUL"
        RECURSIVE skip(_)
        skip(k) == IF at(k) \in {" ", "CR", "LF"} THEN skip(k + 1) ELSE k
        RECURSIVE digits(_, _)
        digits(k, acc) == IF at(k) \in digit
                            THEN digits(k + 1, 10 * acc + value(at(k)))
                            ELSE [pos |-> k, val |-> acc]
        k0 == skip(1)
        k1 == IF at(k0) \in {"-", "+"} THEN k0 + 1 ELSE k0
        d  == digits(k1, 0)
    IN  IF buflen < ACK_MSG_LEN THEN [rc |-> -1]
        ELSE IF d.pos = k1 \/ at(d.pos) = "NUL" THEN [rc |-> -1]
        ELSE [rc    |-> ACK_MSG_LEN,
              seqno |-> IF at(k0) = "-" THEN -d.val ELSE d.val,
              code  |-> at(d.pos)]

\* products at and around the edges of what the header's fields hold
HdrProds ==
    [size       : {0, 1, 10, 99999999 - PROD_HDR_LEN, 99999999 - PROD_HDR_LEN + 1},
     seqno      : {-1, 0, 10, 99999, 100000},
     queue_time : {-1, 0, 1, 999999999, 1000000000, 2147483647}]

\* Either the sender is about to format the header of some product, or the
\* server has written the six bytes of an ack for seqno sent and the client
\* enters recv_ack for a product p_ack of seqno expect.
InitHdr ==
    /\ \E o \in Opts : ~o.connect_wmo /\ InitWith(o, 0)
    /\ pq = WkOff
    /\ dsp = WkOff
    /\ \/ \E p \in HdrProds :
            wk = [pc |-> "format", prod |-> p, rc |-> 0, buf |-> <<>>,
                  hdr |-> [rc |-> 0]]
       \/ \E sent \in {0, 10, 99999}, expect \in {0, 10, 99999},
             c \in {ACK_OK, ACK_FAIL, ACK_RETRY, ACK_BAD} :
            wk = [pc |-> "recv", sent |-> sent, expect |-> expect, code |-> c,
                  wire |-> format_ack(sent, c).buf, recvbuf |-> <<>>,
                  bytes_left |-> ACK_MSG_LEN, recv_bytes |-> 0,
                  rc |-> 0, p_code |-> ""]

\* The sender formats the header; the receiver, which has read the 32 bytes,
\* parses them.  In recv_ack one recv returns some of the bytes that are
\* still to come, at least one and at most bytes_left; the recv that brings
\* bytes_left to 0 is followed by the rest of recv_ack.
NextHdr ==
    \/ /\ wk.pc = "recv"
       /\ \E recv_bytes \in 1 .. wk.bytes_left :
            LET buf == wk.recvbuf \o SubSeq(wk.wire, 1, recv_bytes)
                a   == parse_ack(buf, recv_bytes)
                rc  == IF a.rc < 0 THEN -1
                       ELSE IF a.seqno # wk.expect THEN -1
                       ELSE IF a.code \notin {ACK_OK, ACK_RETRY, ACK_FAIL} THEN -1
                       ELSE 0
            IN  wk' = [wk EXCEPT
                         !.recvbuf = buf,
                         !.wire = SubSeq(wk.wire, recv_bytes + 1, Len(wk.wire)),
                         !.bytes_left = @ - recv_bytes,
                         !.recv_bytes = recv_bytes,
                         !.pc = IF wk.bytes_left = recv_bytes THEN "returned" ELSE @,
                         !.rc = IF wk.bytes_left = recv_bytes THEN rc ELSE @,
                         !.p_code = IF wk.bytes_left = recv_bytes /\ rc = 0
                                      THEN a.code ELSE @]
       /\ UNCHANGED <<sendvars, now, pq, dsp>>
    \/ /\ wk.pc = "format"
       /\ wk' = [wk EXCEPT !.pc = IF format_msghdr(wk.prod).rc = -1
                                    THEN "failed" ELSE "parse",
                           !.rc = format_msghdr(wk.prod).rc,
                           !.buf = format_msghdr(wk.prod).buf]
       /\ UNCHANGED <<sendvars, now, pq, dsp>>
    \/ /\ wk.pc = "parse"
       /\ wk' = [wk EXCEPT !.pc = "parsed",
                           !.hdr = sscanf_msghdr(wk.buf, Len(wk.buf))]
       /\ UNCHANGED <<sendvars, now, pq, dsp>>

SpecHdr == InitHdr /\ [][NextHdr]_vars

\* C23: a product with size in 1 .. MAX_PROD_SIZE, seqno in 0 .. 99999 and a
\* queue_time of at most ten digits gets a header of 32 bytes, and parsing
\* that header gives the same size, seqno and queue_time.
C23_HeaderRoundTrip ==
    (/\ wk.pc \in {"format", "parse", "failed", "parsed"}
     /\ wk.prod.size >= 1 /\ wk.prod.size <= 99999999 - PROD_HDR_LEN
     /\ wk.prod.seqno >= 0 /\ wk.prod.seqno <= 99999
     /\ wk.prod.queue_time >= 0) =>
       /\ wk.pc # "failed"
       /\ wk.pc \in {"parse", "parsed"} =>
            wk.rc = 32 /\ Len(wk.buf) = 32
       /\ wk.pc = "parsed" =>
            /\ wk.hdr.rc = 32
            /\ wk.hdr.size = wk.prod.size
            /\ wk.hdr.seqno = wk.prod.seqno
            /\ wk.hdr.queue_time = wk.prod.queue_time

\* the largest product of the largest seqno, queued at the last second of
\* ten digits a 32-bit time holds, has been formatted and parsed
C23_Witness ==
    /\ wk.pc = "parsed"
    /\ wk.prod = [size |-> 99999999 - PROD_HDR_LEN, seqno |-> 99999,
                  queue_time |-> 2147483647]
    /\ wk.hdr.rc = 32

----------------------------------------------------------------------------
(* A send that fails part way                                              *)

\* C24: a send_prod that fails after it wrote bytes of the product to the
\* socket advances ProdSeqno by one and sets the disconnect flag.
C24_PartialSendAdvancesSeqno ==
    [][(/\ pc = "send"
        /\ ev'.op \in {"sendfail", "sendretry"}
        /\ wrote' # wrote) =>
          /\ ProdSeqno' = NEXT_SEQNO(ProdSeqno)
          /\ DISCONNECT_FLAG \in Flags']_vars

\* C25: the send step fails a zero-length file that it can open: the file
\* goes to the fail directory, the product is not put on the awaiting-ack
\* list and ProdSeqno stays as it is.
C25_ZeroLengthFails ==
    [][(/\ pc = "send" /\ pc' # pc
        /\ p_prod # NULL /\ sock_fd >= 0
        /\ prod_tbl.prod[p_prod].size = 0
        /\ ~SendEarly(prod_tbl.prod[p_prod], fs)) =>
          /\ ev'.op = "sendfail"
          /\ ProdSeqno' = ProdSeqno
          /\ \A k \in 1 .. Len(Chain(prod_tbl', "ack_list")) :
               Chain(prod_tbl', "ack_list")[k] # p_prod
          /\ \E k \in 0 .. (SentCount - 1) :
               fs'[FailPath(k)] = fs[prod_tbl.prod[p_prod].filename]]_vars

\* C26: recv_ack takes the six bytes of the ack off the socket and, when the
\* ack is for the seqno of the product at the head and carries K, F or R,
\* returns 0 with that code, however the six bytes were split over the recv
\* calls.
C26_AckReadAnySplit ==
    (wk.pc = "returned" /\ wk.sent = wk.expect
       /\ wk.code \in {ACK_OK, ACK_FAIL, ACK_RETRY}) =>
         /\ Len(wk.recvbuf) = ACK_MSG_LEN /\ wk.wire = <<>>
         /\ wk.rc = 0
         /\ wk.p_code = wk.code

----------------------------------------------------------------------------
(* The re-queue after a reconnect                                          *)

\* C27: the re-queue after a connect leaves the send_count of the product
\* at the head of the awaiting-ack list as it is, takes one off the
\* send_count of every other product it re-queues and changes no other
\* product's send_count.
C27_RequeueSendCount ==
    [][(pc = "connect" /\ sock_fd < 0 /\ pc' = "acquire" /\ sock_fd' >= 0) =>
         LET ch == Chain(prod_tbl, "ack_list")
         IN  \A s \in DOMAIN prod_tbl.prod :
               prod_tbl'.prod[s].send_count =
                 IF s # p_connect /\ \E k \in 2 .. Len(ch) : ch[k] = s
                   THEN prod_tbl.prod[s].send_count - 1
                   ELSE prod_tbl.prod[s].send_count]_vars

----------------------------------------------------------------------------
(* The connection message                                                  *)

\* C28: with connect_wmo set, the first product written on a connection is
\* the connection message made for it, sent with seqno 0.
C28_ConnMsgFirst ==
    [][(opt.connect_wmo /\ pc = "send" /\ wrote = <<>> /\ wrote' # <<>>) =>
         /\ p_prod # NULL /\ p_prod = p_connect
         /\ prod_tbl.prod[p_prod].filename = TmpPath(p_prod)
         /\ prod_tbl.prod[p_prod].send_count = 0
         /\ wrote' = <<0>>]_vars

\* C29: no product on the retry list is a connection message, and a
\* connection message that is written to the socket has not been sent
\* before.
C29_ConnMsgNotRetried ==
    /\ [](\A k \in 1 .. Len(Chain(prod_tbl, "retr_list")) :
            prod_tbl.prod[Chain(prod_tbl, "retr_list")[k]].filename[1] # "tmp")
    /\ [][(pc = "send" /\ pc' # pc /\ p_prod # NULL /\ wrote' # wrote
           /\ prod_tbl.prod[p_prod].filename[1] = "tmp") =>
             prod_tbl.prod[p_prod].send_count = 0]_vars

----------------------------------------------------------------------------
(* The order of the awaiting-ack list                                      *)

\* C30: the products on the awaiting-ack list are in the order in which
\* they were sent: each one carries the seqno that follows, within the
\* window, the seqno of the one before it.
C30_AckListInSendOrder ==
    LET ch == Chain(prod_tbl, "ack_list")
    IN  \A k \in 1 .. Len(ch) - 1 :
          (prod_tbl.prod[ch[k + 1]].seqno - prod_tbl.prod[ch[k]].seqno)
             % (MAX_PROD_SEQNO + 1) \in 1 .. opt.window_size - 1

----------------------------------------------------------------------------
(* The ack timeout                                                         *)

\* C31: an iteration of the send loop that ends with the connection open,
\* products awaiting an ack and no ack to read has tested the deadline of
\* the head of the awaiting-ack list, and a deadline found passed sets the
\* disconnect flag.
C31_AckDeadlineTested ==
    [][/\ (/\ pc # "top" /\ pc' = "top"
           /\ sock_fd >= 0 /\ sock_fd' >= 0
           /\ prod_tbl.ack_list.count > 0
           /\ ~Readable) =>
             (pc = "acks" /\ ack_ready <= 0)
       /\ ev'.op = "acktimeout" => DISCONNECT_FLAG \in Flags']_vars

----------------------------------------------------------------------------
(* The ack that frees a slot                                               *)

\* C32: an ack that frees a slot (K, F, or R for the connection message)
\* sets the state of the acked slot to free and leaves the state of every
\* other slot as it is.
C32_OnlyAckedSlotFreed ==
    [][(/\ pc = "acks" /\ ev'.op = "ack"
        /\ \/ ev'.code \in {ACK_OK, ACK_FAIL}
           \/ ev'.code = ACK_RETRY /\ ev'.slot = p_connect) =>
          /\ pc' # "crashed"
          /\ prod_tbl'.prod[ev'.slot].state = STATE_FREE
          /\ \A s \in DOMAIN prod_tbl.prod :
               s # ev'.slot => prod_tbl'.prod[s].state = prod_tbl.prod[s].state]_vars

----------------------------------------------------------------------------
(* rebuild_lists                                                           *)

\* C33: whatever the table, after rebuild_lists every slot is on exactly one
\* list, the one its state names (queued and retry on the retry list, sent
\* on the awaiting-ack list, every other state on the free list), each
\* list's count is its length and the three counts add up to window_size.
\* The tables are those the send loop reaches, among them the ones it calls
\* rebuild_lists on.
C33_RebuildByState ==
    LET Rebuilt(t) ==
          /\ \A s \in DOMAIN t.prod :
               LET l == IF t.prod[s].state \in {STATE_QUEUED, STATE_RETRY}
                          THEN "retr_list"
                        ELSE IF t.prod[s].state = STATE_SENT THEN "ack_list"
                        ELSE "free_list"
               IN  \A m \in {"free_list", "ack_list", "retr_list"} :
                     Cardinality({k \in 1 .. Len(Chain(t, m)) : Chain(t, m)[k] = s})
                       = IF m = l THEN 1 ELSE 0
          /\ \A m \in {"free_list", "ack_list", "retr_list"} :
               t[m].count = Len(Chain(t, m))
          /\ t.free_list.count + t.ack_list.count + t.retr_list.count
               = opt.window_size
    IN  Rebuilt(rebuild_lists(prod_tbl))

\* the send loop is about to call rebuild_lists: it holds no product, the
\* window is not full, the retry and free lists are empty and a slot in state
\* retry is on no list
C33_Witness ==
    /\ pc = "acquire" /\ p_prod = NULL
    /\ prod_tbl.ack_list.count < opt.window_size
    /\ prod_tbl.retr_list.count = 0
    /\ prod_tbl.free_list.p_head = NULL
    /\ \E s \in DOMAIN prod_tbl.prod : prod_tbl.prod[s].state = STATE_RETRY

----------------------------------------------------------------------------
(* Files that arrive while the poller runs                                 *)

\* A readable, non-empty regular file is put into an input directory, under
\* a name no file of the directory has.
PqArrive ==
    /\ pq.pc = "poll"
    /\ pq.late < MaxArrivals
    /\ \E d \in 1 .. NumDirs, m \in 1 .. MaxMtime :
         /\ Len(pq.dirs[d]) < MaxDirLen
         /\ LET used == {pq.dirs[d][k].name : k \in 1 .. Len(pq.dirs[d])}
                n    == CHOOSE n1 \in (1 .. MaxDirLen) \ used :
                          \A n2 \in (1 .. MaxDirLen) \ used : n1 <= n2
            IN  pq' = [pq EXCEPT !.late = @ + 1,
                                 !.dirs[d] = Append(@, [name |-> n, mtime |-> m,
                                                        ok |-> TRUE, late |-> TRUE])]
    /\ UNCHANGED <<sendvars, now, wk, dsp>>

\* The send loop keeps calling get_next_file and every product handed out is
\* finished in the end; files arrive or not.
SpecPollLive ==
    /\ InitPoll
    /\ [][NextPoll \/ PqArrive]_vars
    /\ WF_vars(PqCall)
    /\ WF_vars(PqFinish)

\* C34: a file that arrived after the client started and is eligible is
\* returned by get_next_file in the end (it is in the window until it is
\* finished), whatever refresh_interval is; with wait_last_file set, if a
\* strictly newer file that arrived as well is there.  Arrivals end, so from
\* some point on no such file is left waiting.
C34_LateFileReturned ==
    <>[](\A d \in 1 .. NumDirs : \A k \in 1 .. Len(pq.dirs[d]) :
           LET f == pq.dirs[d][k]
           IN  (/\ f.late
                /\ pq.opt.wait_last_file =>
                     \E e \in 1 .. NumDirs : \E j \in 1 .. Len(pq.dirs[e]) :
                       pq.dirs[e][j].late /\ pq.dirs[e][j].mtime > f.mtime)
                 => <<d, f.name>> \in pq.win)

----------------------------------------------------------------------------
(* The retries of open_out_file (serv_recv.c)                              *)

\* what one open() of the output file can give: success, or an errno
OpenErrnos == {"ok", "EEXIST", "ENOSPC", "ENOENT", "EISDIR", "EINTR", "EACCES"}

\* one pass of open_out_file's loop (serv_recv.c:411-505): the loop test,
\* the open with result e, the errno switch (fixed: the mkdir or rmdir that
\* repairs the path worked), the shutdown test and the sleep.  seen holds
\* the errnos met so far, sleeptime the sleep of this pass (0: none).
OpenRetry(e, fixed) ==
    /\ wk.pc = "open"
    /\ wk.retry < MaxOpenRetry
    /\ UNCHANGED <<sendvars, now, pq, dsp>>
    /\ LET ret(fd) == [wk EXCEPT !.pc = "returned", !.op = "return",
                                 !.out_fd = fd, !.sleeptime = 0,
                                 !.seen = IF e = "ok" \/ DISCONNECT_FLAG \in wk.Flags
                                            THEN @ ELSE @ \cup {e}]
           again == [wk EXCEPT !.retry = @ + 1, !.op = "again", !.out_fd = -1,
                               !.sleeptime = 0, !.seen = @ \cup {e}]
           slept == [again EXCEPT !.op = "sleep",
                                  !.sleeptime = IF wk.retry < 3
                                                  THEN SHORT_RETRY_SLEEP
                                                  ELSE LONG_RETRY_SLEEP]
           retry == IF SHUTDOWN_FLAG \in wk.Flags THEN ret(-1) ELSE slept
       IN  wk' = IF DISCONNECT_FLAG \in wk.Flags THEN ret(wk.out_fd)
                 ELSE CASE e = "ok" -> ret(3)
                        [] e \in {"EEXIST", "ENOSPC"} -> retry
                        [] e = "ENOENT" ->
                             IF fixed /\ wk.retry = 0 THEN again ELSE retry
                        [] e = "EISDIR" ->
                             IF fixed /\ wk.retry = 0 THEN again ELSE ret(-1)
                        [] e = "EINTR" -> again
                        [] OTHER -> ret(-1)

\* open_out_file called with no flag set or with some, and its passes with
\* signals between them
SpecOpen ==
    /\ \E o \in Opts : ~o.connect_wmo /\ InitWith(o, 0)
    /\ wk \in {[pc |-> "open", Flags |-> fl, retry |-> 0, out_fd |-> -1,
                 seen |-> {}, sleeptime |-> 0, op |-> "none"]
                  : fl \in SUBSET {SHUTDOWN_FLAG, DISCONNECT_FLAG}}
    /\ pq = WkOff
    /\ dsp = WkOff
    /\ [][(\E e \in OpenErrnos, fixed \in BOOLEAN : OpenRetry(e, fixed))
             \/ WkSignal]_vars

\* C35: when the opens of the output file fail with ENOSPC or EEXIST only,
\* open_out_file returns -1 only with the shutdown flag set, and every
\* sleep before one of the first three retries is 3 s, every later one 30 s.
C35_RetryUntilOpenOrShutdown ==
    [][/\ (/\ wk.pc = "open" /\ wk'.pc = "returned"
           /\ wk'.out_fd < 0
           /\ wk'.seen # {} /\ wk'.seen \subseteq {"EEXIST", "ENOSPC"}) =>
             SHUTDOWN_FLAG \in wk'.Flags
       /\ (wk'.op = "sleep" /\ wk'.seen \subseteq {"EEXIST", "ENOSPC"}) =>
             wk'.sleeptime = IF wk'.retry <= 3 THEN SHORT_RETRY_SLEEP
                             ELSE LONG_RETRY_SLEEP]_vars


----------------------------------------------------------------------------
(* The slots of the window                                                 *)

\* C36: whenever the send loop is at the top of a pass, the counts of the
\* free, awaiting-ack and retry lists plus one for a held current product
\* add up to window_size, and every slot that is not the current product is
\* on one of the three lists.
C36_WindowAccounted ==
    pc = "top" =>
      /\ prod_tbl.free_list.count + prod_tbl.ack_list.count
           + prod_tbl.retr_list.count + (IF p_prod # NULL THEN 1 ELSE 0)
             = opt.window_size
      /\ \A s \in DOMAIN prod_tbl.prod :
           s # p_prod => ListOf(prod_tbl, s) # {}

----------------------------------------------------------------------------
(* The disconnect flag and a new connection                                *)

\* C37: a connection that has just been established starts with the
\* disconnect flag clear, and while it is open the flag is raised only by a
\* step that meets a failure on it (a failed send, a failed or rejected ack
\* read, an ack timeout); so the loop top, which closes the socket when it
\* finds the flag, never closes it for a flag raised before the connect.
C37_NoStaleDisconnect ==
    [][/\ ev'.op = "connected" => DISCONNECT_FLAG \notin Flags'
       /\ (/\ sock_fd >= 0 /\ sock_fd' >= 0
           /\ DISCONNECT_FLAG \notin Flags
           /\ DISCONNECT_FLAG \in Flags') => ev'.op \notin {"none", "connected"}
       /\ (sock_fd >= 0 /\ sock_fd' < 0 /\ pc' # "exit") =>
             (pc = "top" /\ DISCONNECT_FLAG \in Flags)]_vars

----------------------------------------------------------------------------
(* The sleep at the end of a pass of the send loop (client_send.c)         *)

\* TIMEOUT_TIME of the head of the awaiting-ack list at time w.now
TIMEOUT_TIME(w) == w.send_time + w.opt.timeout - w.now

\* the passes of poll_and_send as far as the sleep depends on them: the
\* clock, the socket, the flag, the two failure counters, queue_len, the
\* count of the awaiting-ack list and the send_time of its head (-1: list
\* empty), the wait_time computed last and the unsigned int sleep was
\* called with
SlInits ==
    {[pc |-> "top", opt |-> o, now |-> 0, sock_fd |-> -1, Flags |-> {},
      connect_failures |-> 0, input_failures |-> 0, queue_len |-> 0,
      ack_count |-> 0, send_time |-> -1, wait_time |-> 0, seconds |-> 0,
      op |-> "none"]
       : o \in [timeout : 1 .. 2, poll_interval : 1 .. 2]}

\* the disconnect check and the connect (client_send.c:164-226): a
\* connect that succeeds re-queues what awaited an ack
SlTop ==
    /\ wk.pc = "top"
    /\ UNCHANGED <<sendvars, now, pq, dsp>>
    /\ LET closed == IF wk.sock_fd >= 0 /\ DISCONNECT_FLAG \in wk.Flags
                       THEN [wk EXCEPT !.sock_fd = -1, !.Flags = {}]
                       ELSE wk
       IN  IF closed.sock_fd >= 0
             THEN wk' = [closed EXCEPT !.pc = "send", !.op = "top"]
             ELSE \/ wk' = [closed EXCEPT !.pc = "send", !.op = "connected",
                                          !.sock_fd = 1, !.connect_failures = 0,
                                          !.ack_count = 0, !.send_time = -1]
                  \/ /\ closed.connect_failures < MaxFailures
                     /\ wk' = [closed EXCEPT !.pc = "send", !.op = "refused",
                                             !.connect_failures = @ + 1]

\* the next product and its send (client_send.c:228-328): get_next_file,
\* when it is called, gives queue_len q; a product that is held goes out
\* on an open socket and joins the awaiting-ack list with send_time now, or
\* its send fails and raises the flag
SlSend ==
    /\ wk.pc = "send"
    /\ UNCHANGED <<sendvars, now, pq, dsp>>
    /\ \E called \in BOOLEAN, q \in -1 .. 1, held \in BOOLEAN, sent \in BOOLEAN :
         /\ called => wk.ack_count < WindowSize
         /\ (called /\ q < 0) => wk.input_failures < MaxFailures
         /\ held => IF called THEN q > 0 ELSE wk.ack_count < WindowSize
         /\ LET w1 == IF called
                        THEN [wk EXCEPT !.queue_len = q,
                                        !.input_failures = IF q < 0 THEN @ + 1 ELSE 0]
                        ELSE wk
                w2 == IF held /\ w1.sock_fd >= 0
                        THEN IF sent
                               THEN [w1 EXCEPT !.ack_count = @ + 1,
                                               !.send_time = IF w1.ack_count = 0
                                                               THEN w1.now ELSE @]
                               ELSE [w1 EXCEPT !.Flags = {DISCONNECT_FLAG}]
                        ELSE w1
            IN  wk' = [w2 EXCEPT !.pc = "acks", !.op = "send"]

\* one pass of the ack loop (client_send.c:330-425): on an open socket
\* with products awaiting an ack, the head is acked (the next head was sent
\* at t) and the loop goes on, or nothing is there to read, the deadline of
\* the head is tested and the loop ends, or the read fails
SlAcks ==
    /\ wk.pc = "acks"
    /\ UNCHANGED <<sendvars, now, pq, dsp>>
    /\ IF wk.sock_fd >= 0 /\ wk.ack_count > 0
         THEN \/ \E t \in wk.send_time .. wk.now :
                   wk' = [wk EXCEPT !.op = "ack",
                                    !.pc = IF wk.ack_count = 1 THEN "sleep" ELSE @,
                                    !.ack_count = @ - 1,
                                    !.send_time = IF wk.ack_count = 1 THEN -1 ELSE t]
              \/ wk' = [wk EXCEPT !.pc = "sleep", !.op = "noack",
                                  !.Flags = IF TIMEOUT_TIME(wk) <= 0
                                              THEN {DISCONNECT_FLAG} ELSE @]
              \/ wk' = [wk EXCEPT !.pc = "sleep", !.op = "ackfail",
                                  !.Flags = {DISCONNECT_FLAG}]
         ELSE wk' = [wk EXCEPT !.pc = "sleep", !.op = "acks"]

\* the end of the pass (client_send.c:427-438): wait_time, and sleep
\* called with it as an unsigned int; the sleep lasts that long or a signal
\* ends it before
SlSleep ==
    /\ wk.pc = "sleep"
    /\ UNCHANGED <<sendvars, now, pq, dsp>>
    /\ IF DISCONNECT_FLAG \notin wk.Flags /\ (wk.queue_len <= 0 \/ wk.sock_fd < 0)
         THEN LET wait_time ==
                    IF wk.connect_failures > 3 \/ wk.input_failures > 3
                      THEN RECOVERY_SLEEP
                    ELSE IF wk.ack_count # 0
                      THEN IF wk.opt.poll_interval < TIMEOUT_TIME(wk)
                             THEN wk.opt.poll_interval ELSE TIMEOUT_TIME(wk)
                    ELSE wk.opt.poll_interval
                  seconds == wait_time % (2 ^ IntBits)
              IN  \E t \in wk.now .. MaxNow :
                    /\ t - wk.now <= seconds
                    /\ wk' = [wk EXCEPT !.pc = "top", !.op = "sleep",
                                        !.wait_time = wait_time,
                                        !.seconds = seconds, !.now = t]
         ELSE wk' = [wk EXCEPT !.pc = "top", !.op = "nosleep"]

\* a second passes while the client connects, sends or waits in select
SlTick ==
    /\ wk.pc \in {"send", "acks"}
    /\ wk.now < MaxNow
    /\ wk' = [wk EXCEPT !.now = @ + 1, !.op = "tick"]
    /\ UNCHANGED <<sendvars, now, pq, dsp>>

SpecSleep ==
    /\ \E o \in Opts : ~o.connect_wmo /\ InitWith(o, 0)
    /\ wk \in SlInits
    /\ pq = WkOff
    /\ dsp = WkOff
    /\ [][SlTop \/ SlSend \/ SlAcks \/ SlSleep \/ SlTick]_vars

\* C38: the wait_time the send loop computes for the sleep at the end of
\* a pass is at least 0 and at most the larger of poll_interval and 20, and
\* sleep is called with that number of seconds.
C38_SleepTimeInRange ==
    wk.op = "sleep" =>
      /\ wk.wait_time >= 0
      /\ wk.wait_time <= (IF wk.opt.poll_interval > RECOVERY_SLEEP
                            THEN wk.opt.poll_interval ELSE RECOVERY_SLEEP)
      /\ wk.seconds = wk.wait_time

----------------------------------------------------------------------------
(* The CCB heading and retransmission (send_prod, get_ccb_len)             *)

\* get_ccb_len: the length of the CCB heading at the start of buf, 0 if
\* there is none.  Reading a byte past buflen reads what the buffer held
\* before, here any byte of CcbBytes.
get_ccb_len(buf, buflen, junk) ==
    LET at(k) == IF k + 1 <= Len(buf) THEN buf[k + 1] ELSE junk
        ccb_len == at(CCB_LENGTH_BYTE) * 2
    IN  IF at(CCB_FLAG_BYTE) # CCB_FLAG_VAL THEN 0
        ELSE IF ccb_len > CcbMaxHdrLen \/ ccb_len < CcbMinHdrLen \/ ccb_len > buflen
          THEN 0
        ELSE ccb_len

\* the bytes a product file is made of: the CCB flag, a length byte, data
CcbBytes == {CCB_FLAG_VAL, 1, 7}

\* send_prod from the open of the file on (client_send.c:680-845), with
\* strip_ccb set, for the product w.prod and its file w.file: the read
\* loop, the CCB check and the header on the first block, the sends, of
\* which the first nok succeed, and the return value.  The transmission is
\* recorded with the header and the body bytes written to the socket.
send_prod_blocks(w, nok, junk) ==
    LET RECURSIVE loop(_)
        loop(L) ==
          IF L.bytes_left <= 0 THEN L
          ELSE LET bytes_read == IF Len(w.file) - L.pos < L.read_size
                                   THEN Len(w.file) - L.pos ELSE L.read_size
                   readbuf == SubSeq(w.file, L.pos + 1, L.pos + bytes_read)
                   first == L.bytes_left = L.p.size
                   c == IF first THEN get_ccb_len(readbuf, bytes_read, junk) ELSE 0
                   p1 == IF first
                           THEN [L.p EXCEPT !.ccb_len = c, !.size = @ - c]
                           ELSE L.p
                   h == format_msghdr([size |-> p1.size, seqno |-> 0,
                                       queue_time |-> 0])
               IN  IF bytes_read = 0 \/ bytes_read > L.bytes_left
                     THEN [L EXCEPT !.p.state = STATE_FAILED]
                   ELSE IF first /\ h.rc < 0
                     THEN [L EXCEPT !.p = [p1 EXCEPT !.state = STATE_FAILED],
                                    !.rc = -1, !.bytes_left = 0]
                   ELSE IF L.nsent >= nok
                     THEN [L EXCEPT !.p = [p1 EXCEPT !.state = STATE_RETRY]]
                   ELSE loop([L EXCEPT !.p = p1,
                                       !.hdr = IF first THEN h.buf ELSE @,
                                       !.body = @ \o SubSeq(readbuf, c + 1, bytes_read),
                                       !.bytes_left = @ - bytes_read,
                                       !.pos = @ + bytes_read,
                                       !.read_size = CcbBufSize,
                                       !.nsent = @ + 1])
        r == loop([p |-> [w.prod EXCEPT !.ccb_len = 0, !.send_count = @ + 1],
                   bytes_left |-> w.prod.size, pos |-> 0,
                   read_size |-> CcbFirstRead, hdr |-> <<>>, body |-> <<>>,
                   nsent |-> 0, rc |-> 0])
        rc == IF r.rc < 0 \/ r.bytes_left > 0 THEN -1 ELSE 0
    IN  [w EXCEPT !.prod = IF rc = 0 THEN [r.p EXCEPT !.state = STATE_SENT] ELSE r.p,
                  !.sends = Append(@, [hdr |-> r.hdr, body |-> r.body, rc |-> rc]),
                  !.op = "send"]

\* a product queued with the size of its file (client_queue.c), not yet
\* sent
CcbInits ==
    {[pc |-> "send", file |-> f, op |-> "none", sends |-> <<>>,
      prod |-> [size |-> Len(f), ccb_len |-> 0, state |-> STATE_QUEUED,
                send_count |-> 0]]
       : f \in UNION {[1 .. n -> CcbBytes] : n \in CcbMinHdrLen .. MaxCcbFile}}

\* the product is sent, the first time or again after an R ack or a
\* reconnect; a product in the failed state is not sent again
CcbSend ==
    /\ wk.pc = "send"
    /\ Len(wk.sends) < MaxSends
    /\ wk.prod.state # STATE_FAILED
    /\ \E nok \in 0 .. MaxSends, junk \in CcbBytes :
         wk' = send_prod_blocks(wk, nok, junk)
    /\ UNCHANGED <<sendvars, now, pq, dsp>>

SpecCcb ==
    /\ \E o \in Opts : ~o.connect_wmo /\ InitWith(o, 0)
    /\ wk \in CcbInits
    /\ pq = WkOff
    /\ dsp = WkOff
    /\ [][CcbSend]_vars

\* C39: with strip_ccb on, any two transmissions of a product carry the
\* same header, so announce the same size, any two that were sent whole
\* carry the same body bytes, and the product's size is the size of its file
\* less at most one CCB length.
C39_SameSizeEverySend ==
    /\ \A a, b \in DOMAIN wk.sends :
         /\ (wk.sends[a].hdr # <<>> /\ wk.sends[b].hdr # <<>>) =>
               wk.sends[a].hdr = wk.sends[b].hdr
         /\ (wk.sends[a].rc = 0 /\ wk.sends[b].rc = 0) =>
               wk.sends[a].body = wk.sends[b].body
    /\ wk.prod.size \in {Len(wk.file),
                          Len(wk.file) - get_ccb_len(wk.file, Len(wk.file), 7)}

----------------------------------------------------------------------------
(* Termination signals in a worker (serv_main.c, serv_dispatch.c)          *)

\* stop_sighandler in a worker, which has it from the dispatcher as it has
\* the table of pids: the first SIGTERM or SIGINT sets the worker's shutdown
\* flag, the second one calls kill_workers on the worker's table and exits
WkrSigterm ==
    /\ dsp.pc # "off"
    /\ \E p \in dsp.running :
         IF SHUTDOWN_FLAG \notin dsp.wflags[p]
           THEN dsp' = [dsp EXCEPT !.wflags[p] = @ \cup {SHUTDOWN_FLAG},
                                   !.op = "wsigterm"]
           ELSE dsp' = [dsp EXCEPT
                          !.wsigterm = @ \cup
                             {<<p, q>> : q \in kill_workers(
                                 [max_worker |-> dsp.max_worker,
                                  WorkerPids |-> dsp.tables[p]])},
                          !.running = @ \ {p}, !.zombies = @ \cup {p},
                          !.tables[p] = <<>>,
                          !.sigchld = TRUE, !.op = "wsigexit"]
    /\ UNCHANGED <<sendvars, now, wk, pq>>

SpecDispatchSig == InitDispatch /\ [][NextDispatch \/ WkrSigterm]_vars

\* C40: no worker ever sends SIGTERM to a process, whatever termination
\* signals it gets itself.
C40_WorkerSignalsNobody ==
    dsp.pc # "off" => dsp.wsigterm = {}

====
